---------------------------- MODULE Spec2Model ----------------------------
(***************************************************************************)
(* A model of miditk-smf: the byte codec primitives (converters.py), the   *)
(* Standard MIDI File parser (parser.py), the event handler base classes   *)
(* (api.py), the file writer (writer.py) and the sequence container        *)
(* (sequence.py).                                                          *)
(*                                                                         *)
(* Byte strings are sequences of integers 0..255.  A stream position is a  *)
(* 0-based offset as returned by tell().  Python's None is modelled by the *)
(* integer None for integer-valued attributes and by the empty sequence    *)
(* for optional objects (<<x>> is "the object x", <<>> is None).           *)
(***************************************************************************)
EXTENDS Integers, Sequences, FiniteSets, TLC

VARIABLES
    \* harness of the pure converter functions
    value,        \* the integer handed to write_varlen
    encoded,      \* the byte string write_varlen returned
    decoded,      \* the integer read_varlen returned for it
    cpc,          \* "start" -> "written" -> "read"
    \* the event handler object (BaseMidiEventHandler and its subclasses)
    handler,      \* a record of the handler's attributes, see NewHandler
    \* the caller of the MidiFileWriter methods
    calls,        \* the method calls made so far, in order
    wpc,          \* where the caller is: "idle" when no writer is driven
    \* MidiFileParser
    input,        \* the tracks of the file, each a sequence of timed packets
    instream,     \* the bytes of the file-like object
    pos,          \* instream.tell()
    strict,       \* self.strict
    format,       \* self.format
    num_tracks,   \* self.num_tracks
    _current_track,       \* self._current_track
    _running_status,      \* self._running_status
    _sysex_continuation,  \* self._sysex_continuation
    track_endposition,    \* the local of parse_track
    ppc,          \* where the parser is: "idle", "header", "chunks", "track",
                  \* "done" (parse_tracks returned), "raised" (an exception left it)
    exc,          \* the exception that left the parser ("" when none)
    log           \* every dispatch the parser made, in order

codecVars == <<value, encoded, decoded, cpc>>

callerVars == <<calls, wpc>>

parserVars == <<input, instream, pos, strict, format, num_tracks, _current_track,
                _running_status, _sysex_continuation, track_endposition, ppc,
                exc, log>>

vars == <<value, encoded, decoded, cpc, handler, calls, wpc, input, instream, pos,
          strict, format, num_tracks, _current_track, _running_status,
          _sysex_continuation, track_endposition, ppc, exc, log>>

---------------------------------------------------------------------------
(* Python's integer operators on non-negative integers.                    *)

RECURSIVE Pow2(_)
Pow2(n) == IF n = 0 THEN 1 ELSE 2 * Pow2(n - 1)

\* x >> n
Shr(x, n) == x \div Pow2(n)

\* x << n
Shl(x, n) == x * Pow2(n)

RECURSIVE BitAnd(_, _)
\* x & y
BitAnd(x, y) ==
    IF x = 0 \/ y = 0 THEN 0
    ELSE (IF x % 2 = 1 /\ y % 2 = 1 THEN 1 ELSE 0) + 2 * BitAnd(x \div 2, y \div 2)

RECURSIVE BitOr(_, _)
\* x | y
BitOr(x, y) ==
    IF x = 0 THEN y
    ELSE IF y = 0 THEN x
    ELSE (IF x % 2 = 1 \/ y % 2 = 1 THEN 1 ELSE 0) + 2 * BitOr(x \div 2, y \div 2)

Min(a, b) == IF a < b THEN a ELSE b

Max(a, b) == IF a > b THEN a ELSE b

---------------------------------------------------------------------------
(* converters.py                                                           *)

\* An off-by-one in the first threshold (value <= 128 instead of <= 127).
sizeof_varlen_offbyone(v) ==
    IF v <= 128 THEN 1
    ELSE IF v <= 16383 THEN 2
    ELSE IF v <= 2097151 THEN 3
    ELSE 4

sizeof_varlen(v) ==
    IF v <= 127 THEN 1
    ELSE IF v <= 16383 THEN 2
    ELSE IF v <= 2097151 THEN 3
    ELSE 4

\* The generator expression of write_varlen: the bytes for i = n, n-1, .., 1.
RECURSIVE varlen_bytes(_, _)
varlen_bytes(v, i) ==
    IF i = 0 THEN <<>>
    ELSE <<BitAnd(BitOr(Shr(v, (i - 1) * 7), 128), IF i > 1 THEN 255 ELSE 127)>>
         \o varlen_bytes(v, i - 1)

\* The generator with the mask of the last byte forgotten (0xFF for every i).
RECURSIVE varlen_bytes_nomask(_, _)
varlen_bytes_nomask(v, i) ==
    IF i = 0 THEN <<>>
    ELSE <<BitAnd(BitOr(Shr(v, (i - 1) * 7), 128), 255)>>
         \o varlen_bytes_nomask(v, i - 1)

write_varlen_nomask(v) ==
    LET nbytes == sizeof_varlen(v)
    IN  IF nbytes = 1 THEN <<v>> ELSE varlen_bytes_nomask(v, nbytes)

write_varlen(v) ==
    LET nbytes == sizeof_varlen(v)
    IN  IF nbytes = 1 THEN <<v>> ELSE varlen_bytes(v, nbytes)

\* The loop of read_varlen over the bytes of data from index i on.
RECURSIVE varlen_loop(_, _, _)
varlen_loop(data, i, sum) ==
    IF i > Len(data) THEN sum
    ELSE LET s == Shl(sum, 7) + BitAnd(data[i], 127)
         IN  IF BitAnd(128, data[i]) = 0 THEN s ELSE varlen_loop(data, i + 1, s)

read_varlen(data) == varlen_loop(data, 1, 0)

\* The struct formats of read_bew / write_bew: 1, 2 or ('>L') 4 bytes.
bew_width(length) == IF length = 1 THEN 1 ELSE IF length = 2 THEN 2 ELSE 4

\* Whether write_bew(value, length) returns (bytes() and pack() raise on a
\* value that does not fit the width; the values here are below 2^31).
write_bew_ok(v, length) ==
    v >= 0 /\ (bew_width(length) = 4 \/ v < Pow2(8 * bew_width(length)))

RECURSIVE bew_bytes(_, _)
bew_bytes(v, n) ==
    IF n = 0 THEN <<>> ELSE bew_bytes(v \div 256, n - 1) \o <<v % 256>>

RECURSIVE bew_bytes_little(_, _)
bew_bytes_little(v, n) ==
    IF n = 0 THEN <<>> ELSE <<v % 256>> \o bew_bytes_little(v \div 256, n - 1)

\* write_bew with the least significant byte first.
write_bew_little(v, length) == bew_bytes_little(v, bew_width(length))

\* write_bew(value, length): bytes((value,)), pack('>H') or pack('>L')
write_bew(v, length) == bew_bytes(v, bew_width(length))

\* Whether read_bew(data) returns: one byte goes through ord(), two through
\* '>H', and anything else through '>L', which needs exactly four bytes.
read_bew_ok(data) == Len(data) \in {1, 2, 4}

RECURSIVE bew_value(_, _)
bew_value(data, n) ==
    IF n = 0 THEN 0 ELSE 256 * bew_value(data, n - 1) + data[n]

read_bew(data) == bew_value(data, Len(data))

\* bytes(values): every value must be in range(0, 256).
tobytestr_ok(values) == \A i \in 1..Len(values) : values[i] \in 0..255

---------------------------------------------------------------------------
(* miditk.common.constants, as far as the modelled code uses them          *)

None == 0 - 1

NOTE_OFF == 128
NOTE_ON == 144
POLYPHONIC_PRESSURE == 160
CONTROLLER_CHANGE == 176
PROGRAM_CHANGE == 192
CHANNEL_PRESSURE == 208
MONO_PRESSURE == 208
PITCH_BEND == 224
SYSTEM_EXCLUSIVE == 240
MTC == 241
SONG_POSITION_POINTER == 242
SONG_SELECT == 243
END_OF_EXCLUSIVE == 247
ESCAPE_SEQUENCE == 247
META_EVENT == 255

SEQUENCE_NUMBER == 0
TEXT == 1
COPYRIGHT == 2
SEQUENCE_NAME == 3
INSTRUMENT_NAME == 4
LYRIC == 5
MARKER == 6
CUEPOINT == 7
PROGRAM_NAME == 8
DEVICE_NAME == 9
MIDI_CH_PREFIX == 32
MIDI_PORT == 33
END_OF_TRACK == 47
TEMPO == 81
SMTP_OFFSET == 84
TIME_SIGNATURE == 88
KEY_SIGNATURE == 89
SEQUENCER_SPECIFIC == 127

\* b'MThd' and b'MTrk'
FILE_HEADER == <<77, 84, 104, 100>>
TRACK_HEADER == <<77, 84, 114, 107>>

---------------------------------------------------------------------------
(* parser.py: MidiEvent                                                    *)

\* MidiEvent(track=...), with the attributes the parser and the sequence
\* handler add to it (time and relative_time are set by add_event).
MidiEvent(track) ==
    [type |-> META_EVENT, track |-> track, meta_type |-> None, data |-> <<>>,
     channel |-> None, time |-> None, relative_time |-> None]

---------------------------------------------------------------------------
(* api.py: BaseMidiEventHandler, NullMidiEventHandler;                     *)
(* writer.py: MidiFileWriter; sequence.py: ObjectMidiEventHandler.         *)
(*                                                                         *)
(* A handler is a record of its attributes; kind tells its class ("null",  *)
(* "writer" or "object").  A method is an operator from the handler before *)
(* the call to the handler after it; exc names the exception the call      *)
(* raised ("" when it returned), and a statement after a raise has no      *)
(* effect.  current_time holds the sequence handler's time exactly, as the *)
(* ticks that went by at each tempo: the time is the sum over the tempos   *)
(* of ticks * tempo / 1000 / tick_division.                                *)

\* The time 0.0, and the time after ticks more ticks at the given tempo
ZeroTime == <<>>

TimePlus(time, ticks, tempo) ==
    [t \in DOMAIN time \cup {tempo} |->
        (IF t \in DOMAIN time THEN time[t] ELSE 0) + (IF t = tempo THEN ticks ELSE 0)]

\* time a <= time b, for two times of one run
TimeLeq(a, b) == \A t \in DOMAIN a : t \in DOMAIN b /\ a[t] <= b[t]

NewHandler(kind) ==
    [kind |-> kind,
     \* BaseMidiEventHandler.__init__
     absolute_time |-> 0, relative_time |-> 0, current_track |-> None,
     convert_zero_velocity |-> TRUE,
     \* MidiFileWriter.__init__
     _file |-> <<>>, _track_buffer |-> <<>>,
     \* ObjectMidiEventHandler.__init__ and the MidiSequence it fills
     events |-> <<>>, tick_division |-> None, initial_tempo |-> None,
     current_time |-> ZeroTime, current_tempo |-> 500000,
     _sysex_continuation |-> FALSE, _sysex_buffer |-> <<>>,
     exc |-> ""]

Raise(h, e) == IF h.exc # "" THEN h ELSE [h EXCEPT !.exc = e]

\* BaseMidiEventHandler.reset_ticks
reset_ticks(h) == [h EXCEPT !.relative_time = 0, !.absolute_time = 0]

\* update_ticks that forgets to accumulate the absolute time.
base_update_ticks_noacc(h, ticks, relative) ==
    [h EXCEPT !.relative_time = ticks, !.absolute_time = ticks]

\* BaseMidiEventHandler.update_ticks
base_update_ticks(h, ticks, relative) ==
    IF relative
    THEN [h EXCEPT !.relative_time = ticks, !.absolute_time = @ + ticks]
    ELSE [h EXCEPT !.relative_time = ticks - h.absolute_time,
                   !.absolute_time = ticks]

\* update_ticks that counts every tick at the initial tempo.
update_ticks_initial_tempo(h, ticks, relative) ==
    IF h.exc # "" THEN h
    ELSE IF h.kind = "object"
    THEN [base_update_ticks(h, ticks, relative) EXCEPT
              !.current_time = TimePlus(@, ticks, 500000)]
    ELSE base_update_ticks(h, ticks, relative)

\* ObjectMidiEventHandler.update_ticks; the others inherit the base method.
update_ticks(h, ticks, relative) ==
    IF h.exc # "" THEN h
    ELSE IF h.kind = "object"
    THEN LET h1 == base_update_ticks(h, ticks, relative)
         IN  IF h1.tick_division = None THEN Raise(h1, "AttributeError")
             ELSE IF h1.tick_division = 0 THEN Raise(h1, "ZeroDivisionError")
             ELSE [h1 EXCEPT !.current_time = TimePlus(@, ticks, h1.current_tempo)]
    ELSE base_update_ticks(h, ticks, relative)

\* MidiFileWriter._write
_write(h, data) ==
    IF h.exc # "" THEN h
    ELSE IF h._track_buffer # <<>>
    THEN [h EXCEPT !._track_buffer = <<h._track_buffer[1] \o data>>]
    ELSE [h EXCEPT !._file = @ \o data]

\* MidiFileWriter._write_bew
_write_bew(h, v, length) ==
    IF write_bew_ok(v, length) THEN _write(h, write_bew(v, length))
    ELSE Raise(h, IF length = 1 THEN "ValueError" ELSE "struct.error")

\* MidiFileWriter._write_varlen
_write_varlen(h, v) ==
    IF v < 0 THEN Raise(h, "ValueError") ELSE _write(h, write_varlen(v))

\* MidiFileWriter.event_slice
event_slice(h, slc) ==
    update_ticks(_write(_write_varlen(h, h.relative_time), slc), 0, TRUE)

\* event_slice(tobytestr([...])): the argument is built before the call.
event_slice_of(h, values) ==
    IF tobytestr_ok(values) THEN event_slice(h, values)
    ELSE Raise(h, "ValueError")

\* MidiFileWriter.meta_slice, for a byte string data
meta_slice(h, meta_type, data) ==
    IF ~tobytestr_ok(<<META_EVENT, meta_type>>) THEN Raise(h, "ValueError")
    ELSE event_slice(h, <<META_EVENT, meta_type>> \o write_varlen(Len(data)) \o data)

\* meta_slice(type, tobytestr([...]))
meta_slice_of(h, meta_type, values) ==
    IF tobytestr_ok(values) THEN meta_slice(h, meta_type, values)
    ELSE Raise(h, "ValueError")


\* header(): Null inherits the base's pass, the writer writes the MThd
\* chunk, the sequence handler stores the arguments on the MidiSequence.
header(h, fmt, ntracks, tick_division, metrical, fps, frame_resolution) ==
    IF h.kind = "writer"
    THEN LET h1 == _write_bew(_write_bew(_write_bew(_write(h, FILE_HEADER), 6, 4),
                                         fmt, 2), ntracks, 2)
         IN  IF metrical THEN _write_bew(h1, BitAnd(tick_division, 32767), 2)
             ELSE _write_bew(_write_bew(h1, fps, 1), frame_resolution, 1)
    ELSE IF h.kind = "object" THEN [h EXCEPT !.tick_division = tick_division]
    ELSE h

\* BaseMidiEventHandler.eof / ObjectMidiEventHandler.eof
eof(h) == [h EXCEPT !.current_track = None]

\* start_of_track(track): MidiFileWriter's takes None for "the next track"
\* and opens the track buffer; the others store the track number.
start_of_track(h, track) ==
    IF h.kind = "writer"
    THEN LET t == IF track # None THEN track
                  ELSE IF h.current_track = None THEN 0
                  ELSE h.current_track + 1
         IN  [h EXCEPT !.current_track = t, !._track_buffer = << <<>> >>]
    ELSE [h EXCEPT !.current_track = track]

\* A channel method called with the bytes [status + channel, data...]:
\* the writer's event_slice(tobytestr([...])), the Null handler's pass.
channel_method(h, values) ==
    IF h.kind = "writer" THEN event_slice_of(h, values) ELSE h

note_off(h, channel, note, velocity) ==
    channel_method(h, <<NOTE_OFF + channel, note, velocity>>)

\* note_on that writes the status of a note-off.
note_on_as_off(h, channel, note, velocity) ==
    channel_method(h, <<NOTE_OFF + channel, note, velocity>>)

note_on(h, channel, note, velocity) ==
    channel_method(h, <<NOTE_ON + channel, note, velocity>>)

\* MidiFileWriter.poly_pressure writes MONO_PRESSURE + channel.
poly_pressure(h, channel, note, pressure) ==
    channel_method(h, <<MONO_PRESSURE + channel, note, pressure>>)

controller_change(h, channel, controller, val) ==
    channel_method(h, <<CONTROLLER_CHANGE + channel, controller, val>>)

program_change(h, channel, program) ==
    channel_method(h, <<PROGRAM_CHANGE + channel, program>>)

channel_pressure(h, channel, pressure) ==
    channel_method(h, <<CHANNEL_PRESSURE + channel, pressure>>)

pitch_bend(h, channel, val) ==
    LET msb == BitAnd(Shr(val, 7), 255)
        lsb == BitAnd(val, 255)
    IN  channel_method(h, <<PITCH_BEND + channel, msb, lsb>>)

\* MidiFileWriter.system_exclusive: tobytestr(SYSTEM_EXCLUSIVE) returns the
\* integer it is given, and int + bytes raises.
system_exclusive(h, data) ==
    IF h.kind = "writer" THEN Raise(h, "TypeError") ELSE h

\* end_of_track that writes the track's events without the end-of-track
\* event.
end_of_track_bare(h, track) ==
    IF h.kind = "writer"
    THEN IF h._track_buffer = <<>> THEN Raise(h, "AttributeError")
         ELSE _write(_write_bew(_write([h EXCEPT !._track_buffer = <<>>],
                                       TRACK_HEADER),
                                Len(h._track_buffer[1]), 4),
                     h._track_buffer[1])
    ELSE IF h.kind = "object" THEN [h EXCEPT !.current_track = None]
    ELSE h

\* end_of_track(track)
end_of_track(h, track) ==
    IF h.kind = "writer"
    THEN IF h._track_buffer = <<>> THEN Raise(h, "AttributeError")
         ELSE LET track_data == h._track_buffer[1]
                  h1 == [h EXCEPT !._track_buffer = <<>>]
                  eot_slice == write_varlen(h.relative_time)
                               \o <<META_EVENT, END_OF_TRACK, 0>>
              IN  IF h.relative_time < 0 THEN Raise(h1, "ValueError")
                  ELSE _write(_write(_write_bew(_write(h1, TRACK_HEADER),
                                  Len(track_data) + Len(eot_slice), 4),
                                  track_data), eot_slice)
    ELSE IF h.kind = "object" THEN [h EXCEPT !.current_track = None]
    ELSE h

\* tempo that takes every tempo event's value as the initial tempo.
tempo_overwrites_initial(h, val) ==
    IF h.kind = "writer"
    THEN meta_slice_of(h, TEMPO, <<BitAnd(Shr(val, 16), 255),
                                   BitAnd(Shr(val, 8), 255), BitAnd(val, 255)>>)
    ELSE IF h.kind = "object"
    THEN [h EXCEPT !.initial_tempo = val, !.current_tempo = val]
    ELSE h

\* MidiFileWriter.tempo
tempo(h, val) ==
    IF h.kind = "writer"
    THEN meta_slice_of(h, TEMPO, <<BitAnd(Shr(val, 16), 255),
                                   BitAnd(Shr(val, 8), 255), BitAnd(val, 255)>>)
    ELSE IF h.kind = "object"
    THEN [h EXCEPT !.initial_tempo = IF @ = None THEN val ELSE @,
                   !.current_tempo = val]
    ELSE h

\* The meta types whose method takes the data as a text and writes it as is.
TextMetaTypes == {SEQUENCE_NAME, INSTRUMENT_NAME, TEXT, COPYRIGHT, LYRIC,
                  MARKER, CUEPOINT}

\* BaseMidiEventHandler.meta_event, with the method it calls for the type
base_meta_event(h, event) ==
    LET data == event.data
        t == event.meta_type
        w == h.kind = "writer"
    IN  IF t = END_OF_TRACK
        THEN LET h1 == end_of_track(h, h.current_track)
             IN  IF h1.exc # "" THEN h1 ELSE [h1 EXCEPT !.current_track = None]
        ELSE IF t = TEMPO
        THEN IF Len(data) # 3 THEN Raise(h, "ValueError")
             ELSE tempo(h, Shl(data[1], 16) + Shl(data[2], 8) + data[3])
        ELSE IF t = TIME_SIGNATURE
        THEN IF Len(data) # 4 THEN Raise(h, "ValueError")
             ELSE IF w THEN meta_slice_of(h, TIME_SIGNATURE, data) ELSE h
        ELSE IF t = KEY_SIGNATURE
        THEN IF Len(data) # 2 THEN Raise(h, "ValueError")
             ELSE IF w THEN meta_slice_of(h, KEY_SIGNATURE, data) ELSE h
        ELSE IF t \in TextMetaTypes
        THEN IF w THEN meta_slice(h, t, data) ELSE h
        \* no class defines program_name
        ELSE IF t = PROGRAM_NAME THEN Raise(h, "AttributeError")
        \* only NullMidiEventHandler defines device_name
        ELSE IF t = DEVICE_NAME THEN h
        ELSE IF t = SEQUENCE_NUMBER
        THEN IF ~read_bew_ok(data) THEN Raise(h, "struct.error")
             ELSE IF ~w THEN h
             ELSE IF ~write_bew_ok(read_bew(data), 2) THEN Raise(h, "struct.error")
             ELSE meta_slice(h, SEQUENCE_NUMBER, write_bew(read_bew(data), 2))
        ELSE IF t = MIDI_CH_PREFIX
        THEN IF ~read_bew_ok(data) THEN Raise(h, "struct.error")
             ELSE IF w THEN meta_slice_of(h, MIDI_CH_PREFIX, <<read_bew(data)>>)
             ELSE h
        ELSE IF t = MIDI_PORT
        \* MidiFileWriter.midi_port writes the type MIDI_CH_PREFIX
        THEN IF ~read_bew_ok(data) THEN Raise(h, "struct.error")
             ELSE IF w THEN meta_slice_of(h, MIDI_CH_PREFIX, <<read_bew(data)>>)
             ELSE h
        ELSE IF t = SMTP_OFFSET
        THEN IF Len(data) # 5 THEN Raise(h, "ValueError")
             ELSE IF w THEN meta_slice_of(h, SMTP_OFFSET, data) ELSE h
        ELSE IF t = SEQUENCER_SPECIFIC
        \* MidiFileWriter.sequencer_specific hands meta_slice a tuple:
        \* bytes + tuple raises
        THEN IF w THEN Raise(h, "TypeError") ELSE h
        ELSE IF w THEN meta_slice_of(h, t, data) ELSE h

\* BaseMidiEventHandler.channel_message_event
base_channel_message_event(h, event) ==
    LET data == event.data
        ch == event.channel
        two == Len(data) = 2
    IN  IF event.type = NOTE_ON
        THEN IF ~two THEN Raise(h, "ValueError")
             ELSE IF data[2] = 0 /\ h.convert_zero_velocity
             THEN note_off(h, ch, data[1], 64)
             ELSE note_on(h, ch, data[1], data[2])
        ELSE IF event.type = NOTE_OFF
        THEN IF ~two THEN Raise(h, "ValueError")
             ELSE note_off(h, ch, data[1], data[2])
        ELSE IF event.type = POLYPHONIC_PRESSURE
        THEN IF ~two THEN Raise(h, "ValueError")
             ELSE poly_pressure(h, ch, data[1], data[2])
        ELSE IF event.type = CONTROLLER_CHANGE
        THEN IF ~two THEN Raise(h, "ValueError")
             ELSE controller_change(h, ch, data[1], data[2])
        ELSE IF event.type = PROGRAM_CHANGE
        THEN IF Len(data) = 0 THEN Raise(h, "IndexError")
             ELSE program_change(h, ch, data[1])
        ELSE IF event.type = CHANNEL_PRESSURE
        THEN IF Len(data) = 0 THEN Raise(h, "IndexError")
             ELSE channel_pressure(h, ch, data[1])
        ELSE IF event.type = PITCH_BEND
        THEN IF ~two THEN Raise(h, "ValueError")
             ELSE pitch_bend(h, ch, Shl(data[1], 7) + data[2])
        \* unknown_channel_message: a pass in NullMidiEventHandler
        ELSE h

\* BaseMidiEventHandler.sysex_event calls self.sysex_message, which no
\* class defines.
base_sysex_event(h, event) == Raise(h, "AttributeError")

\* ObjectMidiEventHandler.add_event(event, track)
add_event(h, event, track) ==
    IF h.exc # "" THEN h
    ELSE [h EXCEPT !.events = Append(@,
              [event EXCEPT !.time = h.current_time,
                            !.relative_time = h.relative_time,
                            !.track = IF track = None THEN h.current_track
                                      ELSE track])]

\* sysex_event that stores every packet as it comes, without a buffer.
object_sysex_event_nobuffer(h, event) == add_event(h, event, None)

\* ObjectMidiEventHandler.sysex_event
object_sysex_event(h, event) ==
    IF Len(event.data) = 0 THEN Raise(h, "IndexError")
    ELSE IF event.data[Len(event.data)] = END_OF_EXCLUSIVE
    THEN LET ev == IF h._sysex_continuation
                   THEN [h._sysex_buffer[1] EXCEPT !.data = @ \o event.data]
                   ELSE event
             h1 == IF h._sysex_continuation
                   THEN [h EXCEPT !._sysex_buffer = <<>>] ELSE h
         IN  [add_event(h1, ev, None) EXCEPT !._sysex_continuation = FALSE]
    ELSE IF h._sysex_continuation
    THEN [h EXCEPT !._sysex_buffer = <<[@[1] EXCEPT !.data = @ \o event.data]>>]
    ELSE [h EXCEPT !._sysex_buffer = <<event>>, !._sysex_continuation = TRUE]

\* ObjectMidiEventHandler.meta_event
object_meta_event(h, event) ==
    LET track == h.current_track
        t == event.meta_type
        data == event.data
        h1 == IF t = TEMPO
              THEN IF Len(data) # 3 THEN Raise(h, "ValueError")
                   ELSE tempo(h, Shl(data[1], 16) + Shl(data[2], 8) + data[3])
              ELSE IF t = TIME_SIGNATURE
              THEN IF Len(data) # 4 THEN Raise(h, "ValueError") ELSE h
              ELSE IF t = KEY_SIGNATURE
              THEN IF Len(data) # 2 THEN Raise(h, "ValueError") ELSE h
              ELSE IF t = END_OF_TRACK THEN end_of_track(h, track)
              ELSE h
    IN  add_event(h1, event, track)

\* sysex_event(event), by the handler's class
sysex_event(h, event) ==
    IF h.kind = "object" THEN object_sysex_event(h, event)
    ELSE base_sysex_event(h, event)

\* meta_event(event), by the handler's class
meta_event(h, event) ==
    IF h.kind = "object" THEN object_meta_event(h, event)
    ELSE base_meta_event(h, event)

\* channel_message_event(event), by the handler's class
channel_message_event(h, event) ==
    IF h.kind = "object" THEN add_event(h, event, None)
    ELSE base_channel_message_event(h, event)

\* escape_sequence(event): a pass in the base class, stored by the
\* sequence handler
escape_sequence(h, event) ==
    IF h.kind = "object" THEN add_event(h, event, None) ELSE h

\* invalid_event(event): a pass in the base class, a log line in the
\* sequence handler
invalid_event(h, event) == h

---------------------------------------------------------------------------
(* parser.py: MidiFileParser.  The parser's attributes and locals that a   *)
(* step changes are gathered in a record st (pos, format, num_tracks,      *)
(* _current_track, _running_status, _sysex_continuation,                   *)
(* track_endposition, handler, log, exc); a statement after a raise has no *)
(* effect.                                                                 *)

\* instream.read(n) at position p: the bytes, fewer than n at the end
stream_read(p, n) ==
    IF p >= Len(instream) THEN <<>>
    ELSE SubSeq(instream, p + 1, Min(p + n, Len(instream)))

\* instream.seek(offset, 1) of io.BytesIO: a negative result is clamped
stream_seek(p, offset) == Max(0, p + offset)

\* A dict's get(key, 0): the last entry of the literal with that key wins.
RECURSIVE dict_get(_, _, _)
dict_get(entries, key, i) ==
    IF i = 0 THEN 0
    ELSE IF entries[i][1] = key THEN entries[i][2]
    ELSE dict_get(entries, key, i - 1)

channel_data_sizes ==
    << <<PROGRAM_CHANGE, 1>>, <<CHANNEL_PRESSURE, 1>>, <<NOTE_OFF, 2>>,
       <<NOTE_ON, 2>>, <<MONO_PRESSURE, 2>>, <<CONTROLLER_CHANGE, 2>>,
       <<PITCH_BEND, 2>> >>

system_data_sizes ==
    << <<MTC, 1>>, <<SONG_POSITION_POINTER, 2>>, <<SONG_SELECT, 1>> >>

NoEvent == MidiEvent(None)

\* What the log keeps of a dispatch: the method, its arguments, what the
\* call raised, and the handler's clock as the callback finds it.
LogEntry(h, method, args, event, raised) ==
    [method |-> method, args |-> args, event |-> event, raised |-> raised,
     absolute_time |-> h.absolute_time, relative_time |-> h.relative_time,
     current_time |-> h.current_time]

\* The handler method a dispatch calls
call_handler(h, method, args, event) ==
    IF method = "header"
    THEN header(h, args[1], args[2], args[4], args[3] = 1, args[5], args[6])
    ELSE IF method = "reset_ticks" THEN reset_ticks(h)
    ELSE IF method = "start_of_track" THEN start_of_track(h, args[1])
    ELSE IF method = "update_ticks" THEN update_ticks(h, args[1], TRUE)
    ELSE IF method = "meta_event" THEN meta_event(h, event)
    ELSE IF method = "sysex_event" THEN sysex_event(h, event)
    ELSE IF method = "escape_sequence" THEN escape_sequence(h, event)
    ELSE IF method = "invalid_event" THEN invalid_event(h, event)
    ELSE IF method = "channel_message_event" THEN channel_message_event(h, event)
    ELSE eof(h)

\* dispatch that re-raises the handler's exception in either mode.
dispatched_reraise(st, method, args, event, h1) ==
    [st EXCEPT !.handler = [h1 EXCEPT !.exc = ""],
               !.log = Append(@, LogEntry(st.handler, method, args, event, h1.exc)),
               !.exc = h1.exc]

\* MidiFileParser.dispatch, once the handler's method has been called and
\* has left the handler as h1: an exception of the handler is re-raised in
\* strict mode and logged and dropped in lenient mode.
dispatched(st, method, args, event, h1) ==
    [st EXCEPT !.handler = [h1 EXCEPT !.exc = ""],
               !.log = Append(@, LogEntry(st.handler, method, args, event, h1.exc)),
               !.exc = IF strict THEN h1.exc ELSE ""]

\* MidiFileParser.dispatch
dispatch(st, method, args, event) ==
    IF st.exc # "" THEN st
    ELSE dispatched(st, method, args, event,
                    call_handler(st.handler, method, args, event))

ParserRaise(st, e) == IF st.exc # "" THEN st ELSE [st EXCEPT !.exc = e]

\* instream.tell() after a read(n) at p
stream_after(p, n) == p + Len(stream_read(p, n))

\* _read_event_data(stream), from the seek behind the size on
event_data_at(st, p1, size) ==
    [st |-> [st EXCEPT !.pos = stream_after(p1, size)],
     data |-> stream_read(p1, size)]

\* _read_event_data(stream), with the four bytes read for the size
event_data_sized(st, data) ==
    event_data_at(st, stream_seek(st.pos + Len(data),
                                  sizeof_varlen(read_varlen(data)) - Len(data)),
                  read_varlen(data))

\* _read_event_data(stream): the state after it and the data it returns
read_event_data(st) == event_data_sized(st, stream_read(st.pos, 4))

\* The parser's record of the current state
ParserState ==
    [pos |-> pos, format |-> format, num_tracks |-> num_tracks,
     _current_track |-> _current_track, _running_status |-> _running_status,
     _sysex_continuation |-> _sysex_continuation,
     track_endposition |-> track_endposition, handler |-> handler,
     log |-> log, exc |-> exc]

\* MidiFileParser.next_chunk with the bytes it read: EOFError when nothing
\* is left, struct.error when read_bew gets a length it has no format for
chunk_read(st, chunk_id, len_bytes) ==
    IF chunk_id = <<>>
    THEN [st |-> ParserRaise(st, "EOFError"), chunk_id |-> <<>>, chunk_len |-> 0]
    ELSE IF ~read_bew_ok(len_bytes)
    THEN [st |-> ParserRaise([st EXCEPT !.pos = @ + Len(chunk_id) + Len(len_bytes)],
                             "struct.error"),
          chunk_id |-> chunk_id, chunk_len |-> 0]
    ELSE [st |-> [st EXCEPT !.pos = @ + Len(chunk_id) + Len(len_bytes)],
          chunk_id |-> chunk_id, chunk_len |-> read_bew(len_bytes)]

\* MidiFileParser.next_chunk
next_chunk(st) ==
    chunk_read(st, stream_read(st.pos, 4), stream_read(stream_after(st.pos, 4), 4))

\* parse_header that takes the timing from the low byte of the division.
header_dispatch_low_byte(st, tick_div) ==
    dispatch(st, "header",
             IF BitAnd(tick_div[2], 128) = 0
             THEN <<st.format, st.num_tracks, 1, read_bew(tick_div), 231, 40>>
             ELSE <<st.format, st.num_tracks, 0, 96, tick_div[1], tick_div[2]>>,
             NoEvent)

\* parse_header, from the dispatch of header on
header_dispatch(st, tick_div) ==
    dispatch(st, "header",
             IF BitAnd(tick_div[1], 128) = 0
             THEN <<st.format, st.num_tracks, 1, read_bew(tick_div), 231, 40>>
             ELSE <<st.format, st.num_tracks, 0, 96, tick_div[1], tick_div[2]>>,
             NoEvent)

\* parse_header, with the bytes read for format, num_tracks and the
\* division; st is the state before these reads
header_fields(st, chunk_len, fbytes, nbytes, tick_div) ==
    IF ~read_bew_ok(fbytes) \/ ~read_bew_ok(nbytes)
    THEN ParserRaise(st, "struct.error")
    ELSE IF read_bew(fbytes) = 0 /\ read_bew(nbytes) > 1 /\ strict
    THEN ParserRaise([st EXCEPT !.format = read_bew(fbytes),
                                !.num_tracks = read_bew(nbytes),
                                !.pos = @ + Len(fbytes) + Len(nbytes)],
                     "ParseError")
    ELSE IF Len(tick_div) # 2
    THEN ParserRaise([st EXCEPT !.format = read_bew(fbytes),
                                !.num_tracks = read_bew(nbytes),
                                !.pos = @ + Len(fbytes) + Len(nbytes) + Len(tick_div)],
                     "ValueError")
    ELSE header_dispatch(
             [st EXCEPT !.format = read_bew(fbytes),
                        !.num_tracks = read_bew(nbytes),
                        !.pos = IF chunk_len > 6
                                THEN stream_seek(@ + 6, chunk_len - 6)
                                ELSE @ + 6],
             tick_div)

\* parse_header, after its call of next_chunk
header_chunk(nc) ==
    IF nc.st.exc # "" THEN nc.st
    ELSE IF nc.chunk_id # FILE_HEADER THEN ParserRaise(nc.st, "ParseError")
    ELSE header_fields(nc.st, nc.chunk_len,
                       stream_read(nc.st.pos, 2),
                       stream_read(stream_after(nc.st.pos, 2), 2),
                       stream_read(stream_after(stream_after(nc.st.pos, 2), 2), 2))

\* MidiFileParser.parse_header
parse_header(st0) == header_chunk(next_chunk(st0))

\* parse_track: a meta event, with its type and its data read
meta_packet_data(r, meta_type) ==
    dispatch(r.st, "meta_event", <<>>,
             [MidiEvent(r.st._current_track) EXCEPT
                  !.meta_type = meta_type, !.data = r.data])

\* parse_track: a meta event, with the byte read for its type
meta_packet(st, tbyte) ==
    IF tbyte = <<>> THEN ParserRaise(st, "TypeError")
    ELSE meta_packet_data(read_event_data([st EXCEPT !.pos = @ + 1]), tbyte[1])

\* parse_track: a packet of status 0xF0, with its data read
sysex_packet(r) ==
    IF r.data = <<>> THEN ParserRaise(r.st, "IndexError")
    ELSE dispatch([r.st EXCEPT !._sysex_continuation =
                       r.data[Len(r.data)] # END_OF_EXCLUSIVE],
                  "sysex_event", <<>>,
                  [MidiEvent(r.st._current_track) EXCEPT
                       !.data = r.data, !.type = SYSTEM_EXCLUSIVE])

\* parse_track that takes every packet of status 0xF7 for an escape
\* sequence.
eox_packet_escape(r) ==
    dispatch(r.st, "escape_sequence", <<>>,
             [MidiEvent(r.st._current_track) EXCEPT
                  !.data = r.data, !.type = ESCAPE_SEQUENCE])

\* parse_track: a packet of status 0xF7, with its data read: the
\* continuation of a system-exclusive message, or an escape sequence
eox_packet(r) ==
    IF r.st._sysex_continuation
    THEN sysex_packet(r)
    ELSE dispatch(r.st, "escape_sequence", <<>>,
                  [MidiEvent(r.st._current_track) EXCEPT
                       !.data = r.data, !.type = ESCAPE_SEQUENCE])

\* parse_track that keeps a system common or real time status as the
\* running status.
track_event_keeps_status(st, status) ==
    IF status = META_EVENT
    THEN meta_packet([st EXCEPT !._running_status = None], stream_read(st.pos, 1))
    ELSE IF status = SYSTEM_EXCLUSIVE
    THEN sysex_packet(read_event_data([st EXCEPT !._running_status = None]))
    ELSE IF status = END_OF_EXCLUSIVE
    THEN eox_packet(read_event_data([st EXCEPT !._running_status = None]))
    ELSE IF 241 <= status /\ status <= 254
    THEN dispatch([st EXCEPT !.pos = stream_after(@, dict_get(system_data_sizes, status,
                                                      Len(system_data_sizes)))],
                  "invalid_event", <<>>,
                  [MidiEvent(st._current_track) EXCEPT
                       !.data = stream_read(st.pos,
                                    dict_get(system_data_sizes, status,
                                             Len(system_data_sizes))),
                       !.type = status])
    ELSE dispatch([st EXCEPT !.pos = stream_after(@, dict_get(channel_data_sizes,
                                                      BitAnd(status, 240),
                                                      Len(channel_data_sizes)))],
                  "channel_message_event", <<>>,
                  [MidiEvent(st._current_track) EXCEPT
                       !.data = stream_read(st.pos,
                                    dict_get(channel_data_sizes, BitAnd(status, 240),
                                             Len(channel_data_sizes))),
                       !.type = BitAnd(status, 240),
                       !.channel = BitAnd(status, 15)])

\* parse_track: the event of the given status, the parser behind the
\* status byte (or at the data byte that the running status applies to)
track_event(st, status) ==
    IF status = META_EVENT
    THEN meta_packet([st EXCEPT !._running_status = None], stream_read(st.pos, 1))
    ELSE IF status = SYSTEM_EXCLUSIVE
    THEN sysex_packet(read_event_data([st EXCEPT !._running_status = None]))
    ELSE IF status = END_OF_EXCLUSIVE
    THEN eox_packet(read_event_data([st EXCEPT !._running_status = None]))
    ELSE IF 241 <= status /\ status <= 254
    THEN dispatch([st EXCEPT !._running_status = None,
                             !.pos = stream_after(@, dict_get(system_data_sizes, status,
                                                      Len(system_data_sizes)))],
                  "invalid_event", <<>>,
                  [MidiEvent(st._current_track) EXCEPT
                       !.data = stream_read(st.pos,
                                    dict_get(system_data_sizes, status,
                                             Len(system_data_sizes))),
                       !.type = status])
    ELSE dispatch([st EXCEPT !.pos = stream_after(@, dict_get(channel_data_sizes,
                                                      BitAnd(status, 240),
                                                      Len(channel_data_sizes)))],
                  "channel_message_event", <<>>,
                  [MidiEvent(st._current_track) EXCEPT
                       !.data = stream_read(st.pos,
                                    dict_get(channel_data_sizes, BitAnd(status, 240),
                                             Len(channel_data_sizes))),
                       !.type = BitAnd(status, 240),
                       !.channel = BitAnd(status, 15)])

\* parse_track: the status byte, or the running status for a data byte
track_status(st, sbyte) ==
    IF st.exc # "" THEN st
    \* ord(b'') raises
    ELSE IF sbyte = <<>> THEN ParserRaise(st, "TypeError")
    ELSE IF BitAnd(sbyte[1], 128) # 0
    THEN track_event([st EXCEPT !.pos = @ + 1, !._running_status = sbyte[1]],
                     sbyte[1])
    ELSE IF st._running_status # None
    THEN track_event([st EXCEPT !.pos = stream_seek(@ + 1, 0 - 1)],
                     st._running_status)
    ELSE IF strict THEN ParserRaise([st EXCEPT !.pos = @ + 1], "ParseError")
    ELSE [st EXCEPT !.pos = @ + 1]

\* parse_track: the read of the status byte
track_status_read(st) == track_status(st, stream_read(st.pos, 1))

\* parse_track that never dispatches the delta time.
track_ticks_silent(st, ticks) == track_status_read(st)

\* parse_track: the delta time is dispatched when it is not 0, and the
\* status byte is read
track_ticks(st, ticks) ==
    track_status_read(IF ticks > 0
                      THEN dispatch(st, "update_ticks", <<ticks>>, NoEvent)
                      ELSE st)

\* parse_track: the delta time, with the four bytes read for it
track_delta(st, tdata) ==
    track_ticks([st EXCEPT !.pos = stream_seek(@ + Len(tdata),
                                       sizeof_varlen(read_varlen(tdata)) - 4)],
                read_varlen(tdata))

\* One pass of the while loop of parse_track, from the read of the delta
\* time to the dispatch of the event (or the continue of lenient mode)
parse_track_event(st0) == track_delta(st0, stream_read(st0.pos, 4))

\* The test of the while loop of parse_track: back to parse_tracks' loop
\* once the position has reached the end position
after_event(st) ==
    IF st.exc # "" THEN "raised"
    ELSE IF st.pos < st.track_endposition THEN "track"
    ELSE "chunks"

\* parse_track: the end position of the track, once the handler has been
\* told of its start
track_entered(st3, chunk_len) ==
    IF st3.exc # "" THEN st3
    ELSE [st3 EXCEPT !.track_endposition = st3.pos + chunk_len]

\* parse_track that accepts a track beyond the declared number.
parse_track_nocheck(st1, chunk_len) ==
    track_entered(
        dispatch(dispatch(st1, "reset_ticks", <<>>, NoEvent),
                 "start_of_track", <<st1._current_track>>, NoEvent),
        chunk_len)

\* parse_track up to its while loop, for a chunk of id MTrk; st1 has the
\* track's number
parse_track(st1, chunk_len) ==
    track_entered(
        dispatch(dispatch(IF st1._current_track >= st1.num_tracks /\ strict
                          THEN ParserRaise(st1, "ParseError") ELSE st1,
                          "reset_ticks", <<>>, NoEvent),
                 "start_of_track", <<st1._current_track>>, NoEvent),
        chunk_len)

\* parse_tracks that gives a skipped chunk a track number.
tracks_chunk_counting(st0, nc) ==
    IF nc.st.exc = "EOFError" /\ st0.exc = ""
    THEN dispatch(st0, "eof", <<>>, NoEvent)
    ELSE IF nc.st.exc # "" THEN nc.st
    ELSE IF nc.chunk_id # TRACK_HEADER
    THEN [nc.st EXCEPT !.pos = stream_seek(@, nc.chunk_len),
                       !._current_track = IF @ = None THEN 0 ELSE @ + 1]
    ELSE parse_track([nc.st EXCEPT !._running_status = None,
                                   !._sysex_continuation = FALSE,
                                   !._current_track =
                                       IF @ = None THEN 0 ELSE @ + 1],
                     nc.chunk_len)

\* One pass of the loop of parse_tracks, after its call of next_chunk: the
\* chunk is skipped, or it is a track and parse_track runs up to its while
\* loop; at the end of the file eof is dispatched and parse_tracks returns
tracks_chunk(st0, nc) ==
    IF nc.st.exc = "EOFError" /\ st0.exc = ""
    THEN dispatch(st0, "eof", <<>>, NoEvent)
    ELSE IF nc.st.exc # "" THEN nc.st
    ELSE IF nc.chunk_id # TRACK_HEADER
    THEN [nc.st EXCEPT !.pos = stream_seek(@, nc.chunk_len)]
    ELSE parse_track([nc.st EXCEPT !._running_status = None,
                                   !._sysex_continuation = FALSE,
                                   !._current_track =
                                       IF @ = None THEN 0 ELSE @ + 1],
                     nc.chunk_len)

\* Where parse_tracks is after that pass
after_chunk(st0, nc, st) ==
    IF st.exc # "" THEN "raised"
    ELSE IF nc.st.exc = "EOFError" /\ st0.exc = "" THEN "done"
    ELSE IF nc.chunk_id # TRACK_HEADER THEN "chunks"
    ELSE after_event(st)

\* One pass of the loop of parse_tracks
parse_chunk(st0) == tracks_chunk(st0, next_chunk(st0))

---------------------------------------------------------------------------
(* The converter harness: an integer is written as a variable-length       *)
(* quantity and the bytes are read back.                                   *)

\* How far around each size threshold the inputs reach.
MaxOffset == 12

VarlenLimit == 268435456

Thresholds == {0, 128, 16384, 2097152, VarlenLimit}

\* The values of tests/test_converters.py (test_write_varlen, test_read_varlen).
TestValues == {192, 8192, 64, 127, 16383, 1048576, 2097151, 134217728,
               268435455, 205058401}

VarlenInputs ==
    { v \in { t + d : t \in Thresholds, d \in (0 - MaxOffset - 1)..MaxOffset }
            \cup TestValues : v >= 0 /\ v < VarlenLimit }

\* The parser and the caller of a harness that does not use them
ParserIdle ==
    /\ input = <<>> /\ instream = <<>> /\ pos = 0 /\ strict = TRUE
    /\ format = None /\ num_tracks = None /\ _current_track = None
    /\ _running_status = None /\ _sysex_continuation = FALSE
    /\ track_endposition = 0 /\ ppc = "idle" /\ exc = "" /\ log = <<>>

CallerIdle == calls = <<>> /\ wpc = "idle"

CodecIdle == value = 0 /\ encoded = <<>> /\ decoded = 0 /\ cpc = "idle"

CodecInit ==
    /\ value \in VarlenInputs
    /\ encoded = <<>>
    /\ decoded = 0
    /\ cpc = "start"
    /\ handler = NewHandler("null")
    /\ CallerIdle
    /\ ParserIdle

DoWriteVarlen ==
    /\ cpc = "start"
    /\ encoded' = write_varlen(value)
    /\ cpc' = "written"
    /\ UNCHANGED <<value, decoded, handler, callerVars, parserVars>>

DoReadVarlen ==
    /\ cpc = "written"
    /\ decoded' = read_varlen(encoded)
    /\ cpc' = "read"
    /\ UNCHANGED <<value, encoded, handler, callerVars, parserVars>>

CodecNext == DoWriteVarlen \/ DoReadVarlen

SpecCodec == CodecInit /\ [][CodecNext]_vars

---------------------------------------------------------------------------
(* C2: for every v in [0, 2^28), reading back what write_varlen wrote      *)
(* gives v, and write_varlen wrote sizeof_varlen(v) bytes.                 *)
VarlenRoundTrip ==
    /\ cpc \in {"written", "read"} => Len(encoded) = sizeof_varlen(value)
    /\ cpc = "read" => decoded = value

\* A four-byte quantity has been written and read back.
VarlenRoundTripWitness ==
    cpc = "read" /\ value >= 2097152 /\ Len(encoded) = 4

(* C3: write_varlen(v) is the minimal encoding: 1, 2, 3 or 4 bytes by the  *)
(* thresholds 128, 16384, 2097152; byte i carries the i-th group of seven  *)
(* bits, most significant first; every byte but the last has its high bit  *)
(* set and the last has it clear; the listed examples are encoded as       *)
(* listed.                                                                 *)
VarlenMinimalEncoding ==
    cpc \in {"written", "read"} =>
        LET n == Len(encoded)
        IN  /\ n = (IF value < 128 THEN 1
                    ELSE IF value < 16384 THEN 2
                    ELSE IF value < 2097152 THEN 3
                    ELSE 4)
            /\ \A i \in 1..n :
                  /\ encoded[i] \in 0..255
                  /\ encoded[i] % 128 = (value \div Pow2(7 * (n - i))) % 128
                  /\ (encoded[i] >= 128) = (i < n)
            /\ value = 0 => encoded = <<0>>
            /\ value = 127 => encoded = <<127>>
            /\ value = 128 => encoded = <<129, 0>>
            /\ value = 8192 => encoded = <<192, 0>>
            /\ value = 268435455 => encoded = <<255, 255, 255, 127>>

\* The three-byte quantity 16384 has been written (81 80 00).
VarlenMinimalEncodingWitness ==
    cpc = "written" /\ value = 16384 /\ encoded = <<129, 128, 0>>


---------------------------------------------------------------------------
(* The parser harness: a file is built from tracks of timed packets, and   *)
(* parse_header and parse_tracks run over it, one chunk or one event per   *)
(* step, with the handler the specification names.                         *)

\* The most packets a track of an input file holds.
MaxEvents == 3

\* The most dispatches a run makes (the parser's loops need not end).
MaxLog == 16

\* tick_division of the header (the default of header())
TickDivision == 96

\* Timed packets: a one-byte delta time, then the event's bytes.
NoteOnPacket == <<0, 144, 64, 100>>
RunningPacket == <<16, 64, 0>>
SysexStartPacket == <<0, 240, 3, 126, 0, 6>>
SysexEndPacket == <<16, 247, 2, 127, 247>>
EndOfTrackPacket == <<0, 255, 47, 0>>
TempoPacket == <<0, 255, 81, 3, 3, 208, 144>>
PitchBendPacket == <<0, 224, 1, 0>>
ZeroVelocityPacket == <<16, 144, 64, 0>>

Packets == {NoteOnPacket, RunningPacket, SysexStartPacket, SysexEndPacket,
            EndOfTrackPacket, TempoPacket, PitchBendPacket, ZeroVelocityPacket}

RECURSIVE Flatten(_)
Flatten(seqs) == IF seqs = <<>> THEN <<>> ELSE Head(seqs) \o Flatten(Tail(seqs))

\* The header chunk and a track chunk, as the file format lays them out
HeaderChunk(fmt, ntracks, division) ==
    FILE_HEADER \o write_bew(6, 4) \o write_bew(fmt, 2) \o write_bew(ntracks, 2)
        \o write_bew(division, 2)

TrackChunk(packets) ==
    TRACK_HEADER \o write_bew(Len(Flatten(packets)), 4) \o Flatten(packets)

FileOf(tracks) ==
    HeaderChunk(IF Len(tracks) > 1 THEN 1 ELSE 0, Len(tracks), TickDivision)
        \o Flatten([i \in 1..Len(tracks) |-> TrackChunk(tracks[i])])

\* The second track of the two-track files
SecondTrack == <<ZeroVelocityPacket, EndOfTrackPacket>>

TrackInputs == UNION { [1..k -> Packets] : k \in 0..MaxEvents }

ParseInputs == { <<t>> : t \in TrackInputs } \cup { <<t, SecondTrack>> : t \in TrackInputs }

ParseInit(kind) ==
    /\ input \in ParseInputs
    /\ instream = FileOf(input)
    /\ strict \in BOOLEAN
    /\ pos = 0
    /\ format = None /\ num_tracks = None /\ _current_track = None
    /\ _running_status = None /\ _sysex_continuation = FALSE
    /\ track_endposition = 0
    /\ ppc = "header" /\ exc = "" /\ log = <<>>
    /\ handler = NewHandler(kind)
    /\ CallerIdle
    /\ CodecIdle

\* The parser after a step that left it in st, at nextpc unless the step
\* raised
ParserStep(st, nextpc) ==
    /\ pos' = st.pos
    /\ format' = st.format
    /\ num_tracks' = st.num_tracks
    /\ _current_track' = st._current_track
    /\ _running_status' = st._running_status
    /\ _sysex_continuation' = st._sysex_continuation
    /\ track_endposition' = st.track_endposition
    /\ handler' = st.handler
    /\ log' = st.log
    /\ exc' = st.exc
    /\ ppc' = IF st.exc # "" THEN "raised" ELSE nextpc
    /\ UNCHANGED <<input, instream, strict, codecVars, callerVars>>

ParseHeader ==
    /\ ppc = "header"
    /\ ParserStep(parse_header(ParserState), "chunks")

ParseChunk ==
    /\ ppc = "chunks"
    /\ Len(log) < MaxLog
    /\ ParserStep(parse_chunk(ParserState),
                  after_chunk(ParserState, next_chunk(ParserState),
                              parse_chunk(ParserState)))

ParseTrackEvent ==
    /\ ppc = "track"
    /\ Len(log) < MaxLog
    /\ ParserStep(parse_track_event(ParserState),
                  after_event(parse_track_event(ParserState)))

ParseNext == ParseHeader \/ ParseChunk \/ ParseTrackEvent

\* The parser drives a MidiFileWriter
SpecParseWriter == ParseInit("writer") /\ [][ParseNext]_vars

\* The parser drives an ObjectMidiEventHandler
SpecParseObject == ParseInit("object") /\ [][ParseNext]_vars

---------------------------------------------------------------------------
(* The writer harness: a caller drives a MidiFileWriter, either with any   *)
(* calls in any order (wpc = "free"), or with the calls of one track in    *)
(* the order of the examples (header, start_of_track, the body,            *)
(* end_of_track, eof), after which the output is parsed in strict mode     *)
(* with a NullMidiEventHandler.  calls keeps the calls made.               *)

\* The most calls of a caller that is free in its order
MaxCalls == 5

\* The most calls between start_of_track and end_of_track of the other
MaxBody == 4

\* The calls made before the body: header and start_of_track
BodyStart == Len(<<"header", "start_of_track">>)

\* The ticks a caller passes to update_ticks (the two examples' steps)
TickSteps == {48, 192}

Call(method, args) == [method |-> method, args |-> args]

\* A call that returned: the handler after it, and the stage after it
Returned(h, c, stage) ==
    /\ h.exc = ""
    /\ handler' = h
    /\ calls' = Append(calls, c)
    /\ wpc' = IF wpc = "free" THEN "free" ELSE stage
    /\ UNCHANGED <<codecVars, parserVars>>

\* Whether the caller may add a call to the body of the track
InBody ==
    \/ wpc = "free" /\ Len(calls) < MaxCalls
    \/ wpc = "track" /\ Len(calls) < BodyStart + MaxBody

CallHeader ==
    /\ \/ wpc = "free" /\ Len(calls) < MaxCalls
       \/ wpc = "new"
    /\ Returned(header(handler, 0, 1, TickDivision, TRUE, 231, 40),
                Call("header", <<>>), "headed")

CallStartOfTrack ==
    /\ \/ wpc = "free" /\ Len(calls) < MaxCalls
       \/ wpc = "headed"
    /\ Returned(start_of_track(handler, None), Call("start_of_track", <<>>),
                "track")

CallUpdateTicks ==
    /\ InBody
    /\ \E t \in TickSteps :
          Returned(update_ticks(handler, t, TRUE), Call("update_ticks", <<t>>),
                   "track")

CallNoteOn ==
    /\ InBody
    /\ Returned(note_on(handler, 0, 64, 64), Call("note_on", <<0, 64, 64>>),
                "track")

CallNoteOff ==
    /\ InBody
    /\ Returned(note_off(handler, 0, 64, 64), Call("note_off", <<0, 64, 64>>),
                "track")

CallProgramChange ==
    /\ InBody
    /\ Returned(program_change(handler, 9, 35),
                Call("program_change", <<9, 35>>), "track")

CallEndOfTrack ==
    /\ \/ wpc = "free" /\ Len(calls) < MaxCalls
       \/ wpc = "track"
    /\ Returned(end_of_track(handler, None), Call("end_of_track", <<>>),
                "ended")

CallEof ==
    /\ \/ wpc = "free" /\ Len(calls) < MaxCalls
       \/ wpc = "ended"
    /\ Returned(eof(handler), Call("eof", <<>>), "written")

\* The output is opened as the input of a strict parser with a new
\* NullMidiEventHandler.
ReadBack ==
    /\ wpc = "written"
    /\ wpc' = "parsing"
    /\ instream' = handler._file
    /\ handler' = NewHandler("null")
    /\ ppc' = "header"
    /\ UNCHANGED <<calls, codecVars, input, pos, strict, format, num_tracks,
                   _current_track, _running_status, _sysex_continuation,
                   track_endposition, exc, log>>

WriterInit(stage) ==
    /\ handler = NewHandler("writer")
    /\ calls = <<>>
    /\ wpc = stage
    /\ ParserIdle
    /\ CodecIdle

WriterNext ==
    \/ CallHeader \/ CallStartOfTrack \/ CallUpdateTicks \/ CallNoteOn
    \/ CallNoteOff \/ CallProgramChange \/ CallEndOfTrack \/ CallEof

\* Any calls in any order
SpecWriter == WriterInit("free") /\ [][WriterNext]_vars

\* One track written in order, and read back
SpecWriteParse ==
    WriterInit("new") /\ [][WriterNext \/ ReadBack \/ ParseNext]_vars

---------------------------------------------------------------------------
(* Claims about the parser and the handlers it drives.                     *)

Last(seq) == seq[Len(seq)]

\* The parser has left parse_tracks, by a return or by an exception
ParseEnded == ppc \in {"done", "raised"}

\* A track of the input that ends in its only end-of-track packet, in
\* which every packet carries its own status byte and a system-exclusive
\* message that was begun is completed by the next packet
WellFormedTrack(track) ==
    /\ Len(track) > 0
    /\ \A i \in 1..Len(track) :
          /\ (track[i] = EndOfTrackPacket) = (i = Len(track))
          /\ track[i][2] >= 128
          /\ track[i] = SysexStartPacket => track[i + 1] = SysexEndPacket

WellFormedFile == \A i \in 1..Len(input) : WellFormedTrack(input[i])

\* C1: for a file the parser accepts in strict mode and that uses no
\* running status, parse_header and parse_tracks with a MidiFileWriter as
\* handler end with the writer's output equal to the file, byte for byte.
ParseWriteRoundTrip ==
    (handler.kind = "writer" /\ strict /\ WellFormedFile /\ ParseEnded)
        => (ppc = "done" /\ handler._file = instream)

\* C7: every event the parser passes to sysex_event has 0xF7 as the last
\* byte of its data (split messages arrive coalesced, never as partial
\* packets).
SysexEventsTerminated ==
    \A i \in 1..Len(log) :
        log[i].method = "sysex_event"
            => /\ Len(log[i].event.data) > 0
               /\ Last(log[i].event.data) = END_OF_EXCLUSIVE

\* C7, amended: every system-exclusive event that ObjectMidiEventHandler
\* stores in the MidiSequence has 0xF7 as the last byte of its data, and
\* what the handler buffers of a split message is not yet terminated.
StoredSysexTerminated ==
    /\ \A i \in 1..Len(handler.events) :
          handler.events[i].type = SYSTEM_EXCLUSIVE
              => /\ Len(handler.events[i].data) > 0
                 /\ Last(handler.events[i].data) = END_OF_EXCLUSIVE
    /\ \A i \in 1..Len(handler._sysex_buffer) :
          /\ Len(handler._sysex_buffer[i].data) > 0
          /\ Last(handler._sysex_buffer[i].data) # END_OF_EXCLUSIVE

\* The data of an input packet of one-byte delta, status and length
PacketData(packet) == SubSeq(packet, 4, Len(packet))

\* The sequence holds the message that came in the two sysex packets, and
\* the parser passed the first of them on its own.
StoredSysexTerminatedWitness ==
    /\ handler.kind = "object"
    /\ \E i \in 1..Len(handler.events) :
          /\ handler.events[i].type = SYSTEM_EXCLUSIVE
          /\ handler.events[i].data =
                 PacketData(SysexStartPacket) \o PacketData(SysexEndPacket)
    /\ \E i \in 1..Len(log) :
          /\ log[i].method = "sysex_event"
          /\ log[i].event.data = PacketData(SysexStartPacket)

\* Every track of the input ends in an end-of-track packet
TracksEnded ==
    \A i \in 1..Len(input) :
        Len(input[i]) > 0 /\ Last(input[i]) = EndOfTrackPacket

\* A track with one message split over the two sysex packets
SplitSysexTrack(track) ==
    \E a, b \in 1..Len(track) :
        /\ a < b
        /\ track[a] = SysexStartPacket
        /\ track[b] = SysexEndPacket
        /\ \A i \in 1..Len(track) \ {a, b} :
              track[i] \notin {SysexStartPacket, SysexEndPacket}

StoredSysex == { i \in 1..Len(handler.events) :
                     handler.events[i].type = SYSTEM_EXCLUSIVE }

\* C8: for an F0 packet whose data does not end in 0xF7 and the F7
\* continuation packet that ends the message, the MidiSequence holds exactly
\* one system-exclusive event, whose data is the packets' data in file order
\* and whose time is the time of the first packet.
SplitSysexFirstTimestamp ==
    (handler.kind = "object" /\ ppc = "done" /\ TracksEnded
         /\ SplitSysexTrack(input[1]))
        => /\ Cardinality(StoredSysex) = 1
           /\ \A i \in StoredSysex :
                 /\ handler.events[i].data =
                        PacketData(SysexStartPacket) \o PacketData(SysexEndPacket)
                 /\ \A k \in 1..Len(log) :
                       (/\ log[k].method = "sysex_event"
                        /\ log[k].event.data = PacketData(SysexStartPacket))
                           => handler.events[i].time = log[k].current_time

\* The callbacks that carry an event
EventCallbacks == {"channel_message_event", "sysex_event", "escape_sequence",
                   "meta_event", "invalid_event"}

\* The delta times dispatched in l[1..j] since the last reset_ticks
RECURSIVE TicksSinceReset(_, _)
TicksSinceReset(l, j) ==
    IF j = 0 \/ l[j].method = "reset_ticks" THEN 0
    ELSE (IF l[j].method = "update_ticks" THEN l[j].args[1] ELSE 0)
             + TicksSinceReset(l, j - 1)

\* C9: within a track the absolute_time an event callback finds never
\* decreases and is the sum of the delta times read since the last
\* reset_ticks, and the times stamped on a track's events in the
\* MidiSequence do not decrease in insertion order.
AbsoluteTimeMonotone ==
    /\ handler.absolute_time = TicksSinceReset(log, Len(log))
    /\ \A j \in 1..Len(log) :
          log[j].method \in EventCallbacks
              => /\ log[j].absolute_time = TicksSinceReset(log, j - 1)
                 /\ \A i \in 1..(j - 1) :
                       (/\ log[i].method \in EventCallbacks
                        /\ \A k \in i..j : log[k].method # "reset_ticks")
                           => log[i].absolute_time <= log[j].absolute_time
    /\ \A i, j \in 1..Len(handler.events) :
          (i < j /\ handler.events[i].track = handler.events[j].track)
              => TimeLeq(handler.events[i].time, handler.events[j].time)

\* An event callback came after two delta times of 16 ticks, and a track of
\* the sequence holds events of different times.
AbsoluteTimeMonotoneWitness ==
    /\ handler.kind = "object"
    /\ \E j \in 1..Len(log) :
          log[j].method \in EventCallbacks /\ log[j].absolute_time = 32
    /\ \E i, j \in 1..Len(handler.events) :
          /\ i < j
          /\ handler.events[i].track = handler.events[j].track
          /\ handler.events[i].time # handler.events[j].time

\* The size of the variable-length quantity at offset p of the file
DeltaSize(p) ==
    CHOOSE k \in 1..4 :
        /\ \A i \in 1..(k - 1) : p + i <= Len(instream) /\ instream[p + i] >= 128
        /\ k < 4 => (p + k > Len(instream) \/ instream[p + k] < 128)

\* The data bytes a channel message of the given status takes
ChannelDataSize(status) ==
    IF BitAnd(status, 240) \in {PROGRAM_CHANGE, CHANNEL_PRESSURE} THEN 1 ELSE 2

\* One pass of the track loop over a delta time and a data byte, with a
\* running status in effect: the delta is dispatched when it is not 0,
\* and then a channel event of the running status and channel, whose data
\* starts at that byte and has the size of the status; the parser is left
\* behind the data.
RunningStatusStep ==
    LET d == DeltaSize(pos)
        ticks == read_varlen(SubSeq(instream, pos + 1, pos + d))
        n == ChannelDataSize(_running_status)
    IN  (/\ ppc = "track"
         /\ _running_status # None
         /\ pos + d + n <= track_endposition
         /\ pos + d + n <= Len(instream)
         /\ instream[pos + d + 1] < 128)
            => /\ pos' = pos + d + n
               /\ Len(log') = Len(log) + (IF ticks > 0 THEN 2 ELSE 1)
               /\ ticks > 0 =>
                     /\ log'[Len(log) + 1].method = "update_ticks"
                     /\ log'[Len(log) + 1].args = <<ticks>>
               /\ Last(log').method = "channel_message_event"
               /\ Last(log').event.type = BitAnd(_running_status, 240)
               /\ Last(log').event.channel = BitAnd(_running_status, 15)
               /\ Last(log').event.data =
                      SubSeq(instream, pos + d + 1, pos + d + n)

\* C10: a data byte after a delta time, with a running status in effect, is
\* decoded as the first data byte of a channel event of that status and
\* channel, and exactly the data of that status is consumed; so the track
\* 00 90 40 64 10 40 00 gives two note-on events, at deltas 0 and 16.
RunningStatusDecoded == [][RunningStatusStep]_vars

---------------------------------------------------------------------------
(* Claims about the writer.                                                *)

\* From offset p on, bytes is a sequence of whole chunks: an id, a 4-byte
\* big-endian length, and as many bytes as the length says
RECURSIVE Chunked(_, _)
Chunked(bytes, p) ==
    IF p = Len(bytes) THEN TRUE
    ELSE /\ p + 8 <= Len(bytes)
         /\ SubSeq(bytes, p + 1, p + 4) \in {FILE_HEADER, TRACK_HEADER}
         /\ p + 8 + read_bew(SubSeq(bytes, p + 5, p + 8)) <= Len(bytes)
         /\ Chunked(bytes, p + 8 + read_bew(SubSeq(bytes, p + 5, p + 8)))

\* C4: after any calls of the writer that did not raise, the length field of
\* every MTrk chunk of the output counts the bytes up to the next chunk id
\* or the end of the output, and no event bytes lie outside a chunk.
TrackLengthFields == Chunked(handler._file, 0)

\* What a dispatch of the log shows
LogView(e) ==
    <<e.method, e.args, e.event.type, e.event.meta_type, e.event.channel,
      e.event.data>>

CallView(method, args) == LogView(LogEntry(handler, method, args, NoEvent, ""))

EventView(type, meta_type, channel, data, method) ==
    <<method, <<>>, type, meta_type, channel, data>>

\* The status of the channel method a call names
CallStatus(c) ==
    IF c.method = "note_on" THEN NOTE_ON
    ELSE IF c.method = "note_off" THEN NOTE_OFF
    ELSE PROGRAM_CHANGE

\* The dispatch of a delta time of acc ticks
TicksView(acc) == IF acc > 0 THEN <<CallView("update_ticks", <<acc>>)>> ELSE <<>>

\* The dispatches the calls cs[i..] of a track stand for, acc ticks after
\* the last event: each event after the ticks advanced since the event
\* before it, and the end of the track
RECURSIVE ExpectedEvents(_, _, _)
ExpectedEvents(cs, i, acc) ==
    IF i > Len(cs)
    THEN TicksView(acc)
             \o <<EventView(META_EVENT, END_OF_TRACK, None, <<>>, "meta_event")>>
    ELSE IF cs[i].method = "update_ticks"
    THEN ExpectedEvents(cs, i + 1, acc + cs[i].args[1])
    ELSE IF cs[i].method \in {"note_on", "note_off", "program_change"}
    THEN TicksView(acc)
             \o <<EventView(CallStatus(cs[i]), None, cs[i].args[1],
                            Tail(cs[i].args), "channel_message_event")>>
             \o ExpectedEvents(cs, i + 1, 0)
    ELSE ExpectedEvents(cs, i + 1, acc)

ExpectedLog(cs) ==
    <<CallView("header", <<0, 1, 1, TickDivision, 231, 40>>),
      CallView("reset_ticks", <<>>), CallView("start_of_track", <<0>>)>>
        \o ExpectedEvents(cs, 1, 0) \o <<CallView("eof", <<>>)>>

\* C5: what header, start_of_track, channel events and relative
\* update_ticks calls, end_of_track and eof wrote parses in strict mode
\* into exactly the written events, in order, with their channel and data,
\* each after the ticks advanced since the event before it, and then the
\* end of the track.
WriteParseRoundTrip ==
    (wpc = "parsing" /\ ParseEnded)
        => /\ ppc = "done"
           /\ [i \in 1..Len(log) |-> LogView(log[i])] = ExpectedLog(calls)

\* The ticks passed to update_ticks in cs[1..i]
RECURSIVE TotalTicks(_, _)
TotalTicks(cs, i) ==
    IF i = 0 THEN 0
    ELSE (IF cs[i].method = "update_ticks" THEN cs[i].args[1] ELSE 0)
             + TotalTicks(cs, i - 1)

\* C6: relative update_ticks calls accumulate until the next event is
\* written, so the delta times written in the MTrk, the end-of-track's
\* included, sum to the total of the ticks passed to update_ticks in the
\* track.
WrittenDeltasSum ==
    (wpc = "parsing" /\ ParseEnded)
        => /\ ppc = "done"
           /\ TicksSinceReset(log, Len(log)) = TotalTicks(calls, Len(calls))

---------------------------------------------------------------------------
(* The delivery harness: channel message events are handed to the          *)
(* channel_message_event of a MidiFileWriter with an open track, whose     *)
(* output shows the method that BaseMidiEventHandler called and its        *)
(* arguments.  convert_zero_velocity is a public flag, set either way.     *)

\* The most events handed to the handler
MaxDeliveries == 1

ChannelTypes == {NOTE_OFF, NOTE_ON, POLYPHONIC_PRESSURE, CONTROLLER_CHANGE,
                 PROGRAM_CHANGE, CHANNEL_PRESSURE, PITCH_BEND}

Channels == {0, 15}

DataValues == {0, 64, 127}

\* The event the parser makes of a channel message
ChannelEvent(type, channel, data) ==
    [MidiEvent(0) EXCEPT !.type = type, !.channel = channel, !.data = data]

\* The data of a channel message of the type, cut to the size of the type
ChannelData(type, d1, d2) ==
    SubSeq(<<d1, d2>>, 1, dict_get(channel_data_sizes, type, Len(channel_data_sizes)))

DeliverInit ==
    /\ \E flag \in BOOLEAN :
          handler = [start_of_track(NewHandler("writer"), None)
                        EXCEPT !.convert_zero_velocity = flag]
    /\ calls = <<>>
    /\ wpc = "deliver"
    /\ ParserIdle
    /\ CodecIdle

DeliverChannelMessage ==
    /\ wpc = "deliver"
    /\ Len(calls) < MaxDeliveries
    /\ \E type \in ChannelTypes, channel \in Channels, d1, d2 \in DataValues :
          Returned(channel_message_event(
                       handler, ChannelEvent(type, channel, ChannelData(type, d1, d2))),
                   Call("channel_message_event",
                        ChannelEvent(type, channel, ChannelData(type, d1, d2))),
                   "deliver")

SpecDeliver == DeliverInit /\ [][DeliverChannelMessage]_vars

\* The bytes MidiFileWriter writes for note_off and note_on, after the
\* delta time 0
NoteOffBytes(channel, note, velocity) == <<0, NOTE_OFF + channel, note, velocity>>

NoteOnBytes(channel, note, velocity) == <<0, NOTE_ON + channel, note, velocity>>

\* What the handler is to do with the note-on event e
NoteOnDelivery(e) ==
    IF e.data[2] = 0 /\ handler.convert_zero_velocity
    THEN NoteOffBytes(e.channel, e.data[1], 64)
    ELSE NoteOnBytes(e.channel, e.data[1], e.data[2])

ZeroVelocityStep ==
    (wpc = "deliver" /\ calls' # calls /\ Last(calls').args.type = NOTE_ON)
        => handler'._track_buffer[1] =
               handler._track_buffer[1] \o NoteOnDelivery(Last(calls').args)

\* C11: channel_message_event delivers a note-on of velocity 0 as
\* note_off(channel, note, 0x40) when convert_zero_velocity is set and as
\* note_on(channel, note, 0) when it is not, and a note-on of a velocity
\* above 0 as note_on with the channel, note and velocity unchanged.
ZeroVelocityPolicy == [][ZeroVelocityStep]_vars

\* A note-on of velocity 0 came out as a note-off of velocity 0x40.
ZeroVelocityPolicyWitness ==
    /\ wpc = "deliver"
    /\ handler.convert_zero_velocity
    /\ calls = <<Call("channel_message_event", ChannelEvent(NOTE_ON, 15, <<64, 0>>))>>
    /\ handler._track_buffer = <<NoteOffBytes(15, 64, 64)>>

---------------------------------------------------------------------------
(* Claims about the parser's error handling.                               *)

\* The methods of the dispatches that a step added to the log
NewMethods ==
    [i \in 1..(Len(log') - Len(log)) |-> log'[Len(log) + i].method]

\* One pass of the track loop over a delta time and a data byte, with no
\* running status in effect: only the delta time is dispatched; strict
\* mode raises ParseError, lenient mode goes on behind the data byte.
DataByteStep ==
    LET d == DeltaSize(pos)
        ticks == read_varlen(SubSeq(instream, pos + 1, pos + d))
    IN  (/\ ppc = "track"
         /\ _running_status = None
         /\ pos + d + 1 <= Len(instream)
         /\ instream[pos + d + 1] < 128)
            => /\ NewMethods = (IF ticks > 0 THEN <<"update_ticks">> ELSE <<>>)
               /\ strict => (ppc' = "raised" /\ exc' = "ParseError")
               /\ ~strict =>
                     /\ pos' = pos + d + 1
                     /\ exc' = ""
                     /\ ppc' = (IF pos' < track_endposition THEN "track"
                                ELSE "chunks")
                     /\ _running_status' = None

\* C12: a data byte where a status byte is expected, with no running
\* status in effect, raises ParseError in strict mode and is skipped in
\* lenient mode, which goes on with the same track from the next byte; no
\* event is dispatched for it.
DataByteWithoutStatus == [][DataByteStep]_vars


---------------------------------------------------------------------------
(* The parser on files of several chunks: the header declares a format and *)
(* a number of tracks of its own, a chunk may have an id that is not MTrk, *)
(* and the byte source may end before the last track does.                 *)

\* How many chunks follow the header.
MaxChunks == 2

\* A chunk id that is neither MThd nor MTrk ("XFIH")
OtherId == <<88, 70, 73, 72>>

FileTracks ==
    { <<>>,
      <<NoteOnPacket, EndOfTrackPacket>>,
      <<ZeroVelocityPacket, RunningPacket, EndOfTrackPacket>>,
      <<TempoPacket, NoteOnPacket>>,
      <<SysexStartPacket, SysexEndPacket, EndOfTrackPacket>> }

\* A chunk of the file format: id, length, payload
Chunk(id, packets) == [id |-> id, packets |-> packets]

ChunkBytes(c) ==
    c.id \o write_bew(Len(Flatten(c.packets)), 4) \o Flatten(c.packets)

FileChunks ==
    { Chunk(TRACK_HEADER, t) : t \in FileTracks }
        \cup { Chunk(OtherId, <<NoteOnPacket>>) }

\* How many bytes the byte source lacks at its end
CutSizes == {0, 1, 4}

\* A file: the header's fields, the chunks, and the bytes cut from the end;
\* bytes are cut from the payload of a last chunk that is a track
FileInputs ==
    { f \in [format : {0, 1}, num_tracks : 0..MaxChunks,
             chunks : UNION { [1..k -> FileChunks] : k \in 0..MaxChunks },
             cut : CutSizes] :
        f.cut > 0 => /\ f.chunks # <<>>
                     /\ f.chunks[Len(f.chunks)].id = TRACK_HEADER
                     /\ Len(Flatten(f.chunks[Len(f.chunks)].packets)) >= f.cut }

WholeFile(f) ==
    HeaderChunk(f.format, f.num_tracks, TickDivision)
        \o Flatten([i \in 1..Len(f.chunks) |-> ChunkBytes(f.chunks[i])])

FileBytes(f) == SubSeq(WholeFile(f), 1, Len(WholeFile(f)) - f.cut)

FilesInit ==
    /\ input \in FileInputs
    /\ instream = FileBytes(input)
    /\ strict \in BOOLEAN
    /\ pos = 0
    /\ format = None /\ num_tracks = None /\ _current_track = None
    /\ _running_status = None /\ _sysex_continuation = FALSE
    /\ track_endposition = 0
    /\ ppc = "header" /\ exc = "" /\ log = <<>>
    /\ handler = NewHandler("object")
    /\ CallerIdle
    /\ CodecIdle

\* The parser reads such a file into a MidiSequence
SpecParseFiles == FilesInit /\ [][ParseNext]_vars

\* The number parse_track gives the next MTrk chunk
NextTrack == IF _current_track = None THEN 0 ELSE _current_track + 1

\* parse_header is about to read a header of format 0 that declares more
\* than one track
HeaderViolation == ppc = "header" /\ input.format = 0 /\ input.num_tracks > 1

\* parse_tracks is about to read an MTrk chunk beyond the declared number
SupernumeraryTrack ==
    /\ ppc = "chunks"
    /\ stream_read(pos, 4) = TRACK_HEADER
    /\ Len(stream_read(pos + 4, 4)) = 4
    /\ NextTrack >= num_tracks

RaisedParseError == ppc' = "raised" /\ exc' = "ParseError"

FormatViolationStep ==
    /\ HeaderViolation =>
           IF strict
           THEN RaisedParseError /\ log' = <<>> /\ handler' = handler
           ELSE /\ ppc' = "chunks" /\ exc' = ""
                /\ NewMethods = <<"header">>
                /\ log'[1].args = <<0, input.num_tracks, 1, TickDivision, 231, 40>>
                /\ handler'.tick_division = TickDivision
    /\ SupernumeraryTrack =>
           IF strict
           THEN RaisedParseError /\ log' = log /\ handler' = handler
           ELSE /\ ppc' \in {"track", "chunks"} /\ exc' = ""
                /\ NewMethods = <<"reset_ticks", "start_of_track">>
                /\ Last(log').args = <<NextTrack>>
                /\ _current_track' = NextTrack
                /\ track_endposition' = pos + 8 + read_bew(stream_read(pos + 4, 4))

\* C13: a header of format 0 that declares more than one track, or an MTrk
\* chunk beyond the declared number of tracks, raises ParseError in strict
\* mode before the header callback (before reset_ticks and start_of_track
\* of that track) is dispatched; in lenient mode the callbacks are
\* dispatched as for a valid file and the parse goes on.
FormatViolations == [][FormatViolationStep]_vars

\* A strict parse has read one track and raised at the second MTrk chunk
\* of a file that declares one track.
FormatViolationsWitness ==
    /\ strict /\ ppc = "raised" /\ exc = "ParseError"
    /\ num_tracks = 1 /\ _current_track = 1
    /\ Len(input.chunks) = 2
    /\ Last(log).method = "meta_event"
    /\ Len(SelectSeq(log, LAMBDA e : e.method = "start_of_track")) = 1

\* The callbacks of this step in which the handler raised
NewFailures ==
    { i \in (Len(log) + 1)..Len(log') : log'[i].raised # "" }

HandlerFailureSurfacesStep ==
    NewFailures # {} =>
        /\ ppc' = "raised"
        /\ exc' = log'[Len(log')].raised
        /\ NewFailures = {Len(log')}

\* C14: an exception raised inside a handler callback surfaces to the
\* caller of parse_header / parse_tracks in strict and in lenient mode
\* alike, and no callback follows it.
HandlerFailureSurfaces == [][HandlerFailureSurfacesStep]_vars

HandlerFailureByModeStep ==
    NewFailures # {} =>
        IF strict
        THEN /\ ppc' = "raised"
             /\ exc' = log'[Len(log')].raised
             /\ NewFailures = {Len(log')}
        ELSE /\ ppc' \in {"track", "chunks", "done"}
             /\ exc' = ""
             /\ handler'.exc = ""

\* C14, amended: an exception raised inside a handler callback surfaces to
\* the caller in strict mode, and no callback follows it; in lenient mode
\* dispatch logs it and the parse goes on.
HandlerFailureByMode == [][HandlerFailureByModeStep]_vars

\* A lenient parse has completed although sysex_event raised on the way.
HandlerFailureByModeWitness ==
    /\ ~strict /\ ppc = "done" /\ exc = ""
    /\ \E i \in 1..Len(log) :
          /\ log[i].method = "sysex_event" /\ log[i].raised = "AttributeError"
          /\ i < Len(log)

---------------------------------------------------------------------------
(* Claims about the handlers.                                              *)

\* The parser drives a NullMidiEventHandler
SpecParseNull == ParseInit("null") /\ [][ParseNext]_vars

\* C15: a strict parse of a well-formed file with a NullMidiEventHandler
\* completes: no callback raises, and the handler produces no output.
NullHandlerCompletes ==
    (handler.kind = "null" /\ strict /\ WellFormedFile)
        => /\ ppc # "raised"
           /\ \A i \in 1..Len(log) : log[i].raised = ""
           /\ handler._file = <<>> /\ handler.events = <<>>

---------------------------------------------------------------------------
(* Claims about the order of the callbacks.                                *)

Methods(l, m) == { i \in 1..Len(l) : l[i].method = m }

\* The status in effect at packet i of a track: its own, or the running one
RECURSIVE PacketStatus(_, _)
PacketStatus(track, i) ==
    IF track[i][2] >= 128 THEN track[i][2] ELSE PacketStatus(track, i - 1)

\* The event callback a packet of one-byte delta stands for
PacketView(p, status) ==
    IF status = META_EVENT
    THEN EventView(META_EVENT, p[3], None, SubSeq(p, 5, Len(p)), "meta_event")
    ELSE IF status \in {SYSTEM_EXCLUSIVE, END_OF_EXCLUSIVE}
    THEN EventView(SYSTEM_EXCLUSIVE, None, None, PacketData(p), "sysex_event")
    ELSE EventView(status - (status % 16), None, status % 16,
                   SubSeq(p, IF p[2] >= 128 THEN 3 ELSE 2, Len(p)),
                   "channel_message_event")

\* The callbacks of a track's packets, in file order: the delta time, if
\* any, right before the event
TrackCallbacks(track) ==
    Flatten([i \in 1..Len(track) |->
                TicksView(track[i][1])
                    \o <<PacketView(track[i], PacketStatus(track, i))>>])

\* The callbacks of the chunks cs[i..], of which the first MTrk chunk is
\* track number n
RECURSIVE ChunkCallbacks(_, _, _)
ChunkCallbacks(cs, i, n) ==
    IF i > Len(cs) THEN <<>>
    ELSE IF cs[i].id # TRACK_HEADER THEN ChunkCallbacks(cs, i + 1, n)
    ELSE <<CallView("reset_ticks", <<>>), CallView("start_of_track", <<n>>)>>
             \o TrackCallbacks(cs[i].packets)
             \o ChunkCallbacks(cs, i + 1, n + 1)

\* The callbacks of a whole file
FileCallbacks(f) ==
    <<CallView("header", <<f.format, f.num_tracks, 1, TickDivision, 231, 40>>)>>
        \o ChunkCallbacks(f.chunks, 1, 0)
        \o <<CallView("eof", <<>>)>>

\* C16: when read completes, the handler has seen header once and first;
\* per MTrk chunk, in file order, reset_ticks immediately followed by
\* start_of_track(i), i counting the MTrk chunks only; a track's
\* update_ticks and event callbacks after its start_of_track and before the
\* next reset_ticks, in file order, update_ticks(delta) immediately before
\* its event when delta > 0; and eof once and last.
CallbackOrder ==
    ppc = "done" =>
        /\ Methods(log, "header") = {1}
        /\ Methods(log, "eof") = {Len(log)}
        /\ \A i \in Methods(log, "reset_ticks") :
              /\ log[i + 1].method = "start_of_track"
              /\ log[i + 1].args =
                     <<Cardinality({ j \in Methods(log, "start_of_track") : j < i })>>
        /\ \A i \in Methods(log, "start_of_track") :
              log[i - 1].method = "reset_ticks"
        /\ \A i \in Methods(log, "update_ticks") :
              /\ log[i].args[1] > 0
              /\ log[i + 1].method \in EventCallbacks
        /\ \A i \in 1..Len(log) :
              log[i].method \in EventCallbacks \cup {"update_ticks"}
                  => Methods(SubSeq(log, 1, i), "start_of_track") # {}
        /\ input.cut = 0
              => [i \in 1..Len(log) |-> LogView(log[i])] = FileCallbacks(input)

\* A parse has completed on a file with a chunk of another id before a
\* track that has delta times.
CallbackOrderWitness ==
    /\ ppc = "done"
    /\ Len(input.chunks) > 1
    /\ input.chunks[1].id = OtherId
    /\ input.cut = 0
    /\ \E i \in Methods(log, "start_of_track") :
          log[i].args = <<0>> /\ log[i + 1].method = "update_ticks"

---------------------------------------------------------------------------
(* Claims about chunks of other ids.                                       *)

\* A file is parsed into a MidiSequence, or a MidiFileWriter is called in
\* any order
SpecChunks ==
    (FilesInit \/ WriterInit("free")) /\ [][ParseNext \/ WriterNext]_vars

\* parse_tracks is about to read a whole chunk header whose id is not MTrk
OtherChunk ==
    /\ ppc = "chunks"
    /\ Len(stream_read(pos, 4)) = 4
    /\ stream_read(pos, 4) # TRACK_HEADER
    /\ Len(stream_read(pos + 4, 4)) = 4

\* The bytes a step adds to the writer's output
Written == SubSeq(handler'._file, Len(handler._file) + 1, Len(handler'._file))

\* Exactly one chunk of the given id
OneChunk(bytes, id) ==
    /\ Len(bytes) >= 8
    /\ SubSeq(bytes, 1, 4) = id
    /\ Len(bytes) = 8 + read_bew(SubSeq(bytes, 5, 8))

OtherChunkStep ==
    /\ OtherChunk =>
          /\ pos' = pos + 8 + read_bew(stream_read(pos + 4, 4))
          /\ ppc' = "chunks" /\ exc' = ""
          /\ UNCHANGED <<log, handler, _current_track, _running_status,
                         _sysex_continuation, track_endposition, format,
                         num_tracks>>
    /\ (handler.kind = "writer" /\ handler'._file # handler._file) =>
          /\ SubSeq(handler'._file, 1, Len(handler._file)) = handler._file
          /\ IF Last(calls').method = "header"
             THEN OneChunk(Written, FILE_HEADER)
             ELSE IF Last(calls').method = "end_of_track"
             THEN OneChunk(Written, TRACK_HEADER)
             ELSE \A id \in {FILE_HEADER, TRACK_HEADER, OtherId} :
                     ~OneChunk(Written, id)

\* C17: a chunk after the header whose id is not MTrk is skipped by a seek
\* past its declared length: nothing is dispatched, the track number and
\* the rest of the parser's state stay as they are, so the chunks after it
\* are parsed as if it were absent; and the chunks the writer emits have
\* the ids MThd (header) and MTrk (end_of_track) and no other.
OtherChunksSkipped == [][OtherChunkStep]_vars

\* The parser has skipped the chunk between two tracks and completed: the
\* log is that of the two tracks alone.
OtherChunksSkippedWitness ==
    /\ ppc = "done" /\ input.cut = 0
    /\ \E i \in 1..Len(input.chunks) : input.chunks[i].id = OtherId
    /\ \E i \in 1..Len(input.chunks) : input.chunks[i].id = TRACK_HEADER
    /\ input.chunks[Len(input.chunks)].packets # <<>>
    /\ [i \in 1..Len(log) |-> LogView(log[i])]
           = FileCallbacks([input EXCEPT !.chunks =
                 SelectSeq(@, LAMBDA c : c.id = TRACK_HEADER)])

---------------------------------------------------------------------------
(* Claims about a byte source that ends early.                             *)

\* The byte source ends before the end of the last track
EndsInTrack == input.cut > 0

\* The last packet of the file, the one the end of the byte source cuts
CutPacket ==
    Last(Last(input.chunks).packets)

\* Where the cut packet starts in the byte source
CutPacketStart == Len(WholeFile(input)) - Len(CutPacket)

\* The track loop is at the packet that the byte source cannot supply whole
AtCutPacket == EndsInTrack /\ ppc = "track" /\ pos = CutPacketStart

TruncatedTrackStep ==
    /\ (AtCutPacket /\ strict) => (ppc' = "raised" /\ exc' = "ParseError")
    /\ (EndsInTrack /\ ~strict) => ppc' # "raised"
    /\ (EndsInTrack /\ ppc # "done" /\ ppc' = "done")
           => (~strict /\ Last(log').method = "eof")

\* C18: when the byte source ends in the middle of a track, a strict parse
\* raises ParseError at the packet the source cannot supply whole, and a
\* lenient parse raises nothing and returns only after it has dispatched
\* eof.
TruncatedTrackEnds == [][TruncatedTrackStep]_vars

---------------------------------------------------------------------------
(* The argument harness: the event methods of a MidiFileWriter inside a   *)
(* track are called with arguments in and out of the ranges of the file    *)
(* format; a call that raises is recorded with its exception.              *)

\* How many event methods are called.
MaxArgCalls == 2

ArgChannels == {0, 15, 16}
ArgData == {0, 127, 128, 256}
ArgBends == {0, 16383, 16384}
ArgTempos == {500000, 16777215, 16777216}

ArgsInit ==
    /\ handler = start_of_track(header(NewHandler("writer"), 0, 1, TickDivision,
                                       TRUE, 231, 40), None)
    /\ calls = <<>>
    /\ wpc = "args"
    /\ ParserIdle
    /\ CodecIdle

\* A call that returned or raised: the handler as the call left it
Called(h, method, args) ==
    /\ wpc = "args"
    /\ Len(calls) < MaxArgCalls
    /\ handler' = [h EXCEPT !.exc = ""]
    /\ calls' = Append(calls, [method |-> method, args |-> args, raised |-> h.exc])
    /\ UNCHANGED <<wpc, codecVars, parserVars>>

ArgNoteOn ==
    \E channel \in ArgChannels, note, velocity \in ArgData :
        Called(note_on(handler, channel, note, velocity), "note_on",
               <<channel, note, velocity>>)

ArgProgramChange ==
    \E channel \in ArgChannels, program \in ArgData :
        Called(program_change(handler, channel, program), "program_change",
               <<channel, program>>)

ArgPitchBend ==
    \E channel \in ArgChannels, val \in ArgBends :
        Called(pitch_bend(handler, channel, val), "pitch_bend", <<channel, val>>)

ArgTempo ==
    \E val \in ArgTempos : Called(tempo(handler, val), "tempo", <<val>>)

ArgsNext == ArgNoteOn \/ ArgProgramChange \/ ArgPitchBend \/ ArgTempo

SpecWriterArgs == ArgsInit /\ [][ArgsNext]_vars

\* The arguments of a call are in the ranges of the file format
InRange(c) ==
    IF c.method = "tempo" THEN c.args[1] \in 0..16777215
    ELSE /\ c.args[1] \in 0..15
         /\ IF c.method = "pitch_bend" THEN c.args[2] \in 0..16383
            ELSE \A i \in 2..Len(c.args) : c.args[i] \in 0..127

ArgumentsRejectedStep ==
    (wpc = "args" /\ calls' # calls /\ ~InRange(Last(calls')))
        => /\ Last(calls').raised # ""
           /\ handler'._track_buffer = handler._track_buffer
           /\ handler'._file = handler._file

\* C19: an event method of the writer called with a channel above 15, a
\* data value above 127, a pitch-bend value above 16383 or a tempo above
\* 2^24 - 1 raises and writes no bytes.
ArgumentsRejected == [][ArgumentsRejectedStep]_vars

---------------------------------------------------------------------------
(* Claims about the end of a written track.                                *)

\* A MidiFileWriter is driven by the parser, or called as the examples call
\* it: header, start_of_track, the events of the track, end_of_track, eof
SpecEndOfTrack ==
    (ParseInit("writer") \/ WriterInit("new")) /\ [][ParseNext \/ WriterNext]_vars

\* The size of the variable-length quantity at offset p of bytes
VlqSize(bytes, p) ==
    CHOOSE k \in 1..4 :
        /\ \A i \in 1..(k - 1) : bytes[p + i] >= 128
        /\ k < 4 => bytes[p + k] < 128

\* The size of the event whose status byte is at offset s of bytes: a meta
\* event with its type and one-byte length, or a channel message
EventSize(bytes, s) ==
    IF bytes[s] = META_EVENT THEN 3 + bytes[s + 2]
    ELSE 1 + ChannelDataSize(bytes[s])

\* How many end-of-track meta events there are among the events of bytes
\* from offset p on
RECURSIVE EndOfTracks(_, _)
EndOfTracks(bytes, p) ==
    IF p >= Len(bytes) THEN 0
    ELSE (IF /\ bytes[p + VlqSize(bytes, p) + 1] = META_EVENT
             /\ bytes[p + VlqSize(bytes, p) + 2] = END_OF_TRACK
          THEN 1 ELSE 0)
         + EndOfTracks(bytes, p + VlqSize(bytes, p)
                                 + EventSize(bytes, p + VlqSize(bytes, p) + 1))

\* The end-of-track event after a delta time
EndOfTrackEvent(delta) == write_varlen(delta) \o <<META_EVENT, END_OF_TRACK, 0>>

\* The step closes the writer's track buffer
TrackClosed ==
    /\ handler.kind = "writer"
    /\ handler._track_buffer # <<>>
    /\ handler'._track_buffer = <<>>

\* The payload of the chunk a step adds to the output
Payload == SubSeq(Written, 9, Len(Written))

EndOfTrackStep ==
    TrackClosed =>
        /\ OneChunk(Written, TRACK_HEADER)
        /\ Payload = handler._track_buffer[1]
                         \o EndOfTrackEvent(handler'.relative_time)
        /\ EndOfTracks(handler._track_buffer[1], 0) = 0
        /\ EndOfTracks(Payload, 0) = 1

\* C20: every MTrk chunk the writer emits, called directly or driven by
\* the parser at a parsed end-of-track event, holds the events of the track
\* and then one end-of-track meta event, FF 2F 00 after the writer's
\* pending delta time as a variable-length quantity, and no other
\* end-of-track event.
TrackEndsWithEndOfTrack == [][EndOfTrackStep]_vars

\* A strict parse of a file of two tracks has driven the writer to the
\* end: the output is two MTrk chunks after the header, as long as the
\* file, and ends with the end-of-track event.
TrackEndsWithEndOfTrackWitness ==
    /\ handler.kind = "writer" /\ strict /\ ppc = "done"
    /\ Len(input) = 2 /\ WellFormedFile
    /\ Chunked(handler._file, 0)
    /\ Len(handler._file) = Len(instream)
    /\ SubSeq(handler._file, Len(handler._file) - 3, Len(handler._file))
           = EndOfTrackEvent(0)

---------------------------------------------------------------------------
(* Claims about the files the writer produces.                             *)

\* The ids of the chunks of bytes from offset p on
RECURSIVE ChunkIds(_, _)
ChunkIds(bytes, p) ==
    IF p + 8 > Len(bytes) THEN <<>>
    ELSE <<SubSeq(bytes, p + 1, p + 4)>>
             \o ChunkIds(bytes, p + 8 + read_bew(SubSeq(bytes, p + 5, p + 8)))

\* The caller wrote the header of a format 0 file first and then only
\* started and ended tracks
HeaderThenTracks ==
    /\ wpc = "free" /\ calls # <<>>
    /\ Methods(calls, "header") = {1}
    /\ \A i \in 2..Len(calls) :
          calls[i].method \in {"start_of_track", "end_of_track"}

\* C21: a file written after header(format=0, ...) holds exactly one MTrk
\* chunk, whatever calls of start_of_track and end_of_track follow the
\* header: never more than one, and one once a track has been ended.
FormatZeroOneTrack ==
    HeaderThenTracks
        => /\ Len(SelectSeq(ChunkIds(handler._file, 0),
                            LAMBDA id : id = TRACK_HEADER)) <= 1
           /\ Methods(calls, "end_of_track") # {}
                  => Len(SelectSeq(ChunkIds(handler._file, 0),
                                   LAMBDA id : id = TRACK_HEADER)) = 1

---------------------------------------------------------------------------
(* The system exclusive method of the writer, called inside a track with   *)
(* and without a pending delta time.                                       *)

\* The data of test_write_sysex_issue_7, one byte, and none
SysexData == {<<>>, <<1>>, <<240, 253, 1, 2, 3, 247>>}

ArgSystemExclusive ==
    \E data \in SysexData :
        Called(system_exclusive(handler, data), "system_exclusive", <<data>>)

ArgUpdateTicks ==
    \E t \in TickSteps :
        Called(update_ticks(handler, t, TRUE), "update_ticks", <<t>>)

SpecWriterSysex ==
    ArgsInit /\ [][ArgsNext \/ ArgSystemExclusive \/ ArgUpdateTicks]_vars

SystemExclusiveStep ==
    (wpc = "args" /\ calls' # calls /\ Last(calls').method = "system_exclusive")
        => /\ Last(calls').raised = ""
           /\ handler'._track_buffer[1]
                  = handler._track_buffer[1]
                        \o write_varlen(handler.relative_time)
                        \o <<SYSTEM_EXCLUSIVE>>
                        \o write_varlen(Len(Last(calls').args[1]) + 1)
                        \o Last(calls').args[1]
                        \o <<END_OF_EXCLUSIVE>>

\* C22: system_exclusive(data) of the writer writes, for any byte string
\* data, the pending delta time as a variable-length quantity, then F0, the
\* variable-length quantity of len(data) + 1, the data unchanged and one
\* F7.
SystemExclusiveWritten == [][SystemExclusiveStep]_vars

---------------------------------------------------------------------------
(* Claims about the time of the sequence handler.                          *)

\* ObjectMidiEventHandler.update_ticks divides the tempo by 1000.0
TempoDivisor == 1000

RECURSIVE Gcd(_, _)
Gcd(a, b) == IF b = 0 THEN a ELSE Gcd(b, a % b)

\* The fraction n / d in lowest terms
Fraction(n, d) == <<n \div Gcd(n, d), d \div Gcd(n, d)>>

\* The time a tick takes at a tempo: current_tempo / 1000.0 / tick_division
TickTime(current_tempo, tick_division) ==
    Fraction(current_tempo, TempoDivisor * tick_division)

\* The ticks that went by at tempo t
TicksAt(time, t) == IF t \in DOMAIN time THEN time[t] ELSE 0

\* The step dispatches a delta time to the sequence handler, which returns
TicksDispatched ==
    /\ handler.kind = "object"
    /\ Len(log') > Len(log)
    /\ log'[Len(log) + 1].method = "update_ticks"
    /\ log'[Len(log) + 1].raised = ""

\* The step adds to current_time the time of d ticks at the current tempo
TimeAdvanced(d) ==
    \A t \in DOMAIN handler'.current_time :
        TicksAt(handler'.current_time, t) - TicksAt(handler.current_time, t)
            = IF t = handler.current_tempo THEN d ELSE 0

SecondsStep ==
    TicksDispatched =>
        /\ TimeAdvanced(log'[Len(log) + 1].args[1])
        /\ TickTime(handler.current_tempo, handler.tick_division)
               = Fraction(handler.current_tempo, 1000000 * handler.tick_division)

MillisecondsStep ==
    /\ ppc = "header" => handler.current_tempo = 500000
    /\ (handler.kind = "object" /\ ppc = "header" /\ ppc' = "chunks")
           => handler'.tick_division = read_bew(SubSeq(instream, 13, 14))
    /\ TicksDispatched =>
           /\ TimeAdvanced(log'[Len(log) + 1].args[1])
           /\ TickTime(handler.current_tempo, handler.tick_division)
                  = Fraction(handler.current_tempo, 1000 * handler.tick_division)

---------------------------------------------------------------------------
(* sequence.py: the queries of MidiSequence, on the stored events.         *)

\* The truth value Python gives an attribute that is None or an integer
Truthy(x) == x # None /\ x # 0

\* Whether event a sorts before event b, by (track, time) or (time, track)
SortsBefore(a, b, by_track) ==
    IF by_track
    THEN \/ a.track < b.track
         \/ a.track = b.track /\ a.time # b.time /\ TimeLeq(a.time, b.time)
    ELSE \/ a.time # b.time /\ TimeLeq(a.time, b.time)
         \/ a.time = b.time /\ a.track < b.track

\* sorted(self, key=attrgetter(...)): the sort is stable
RECURSIVE sorted(_, _)
sorted(events, by_track) ==
    IF events = <<>> THEN <<>>
    ELSE LET s == sorted(SubSeq(events, 1, Len(events) - 1), by_track)
             k == Cardinality({ i \in 1..Len(s) :
                                   ~SortsBefore(Last(events), s[i], by_track) })
         IN  SubSeq(s, 1, k) \o <<Last(events)>> \o SubSeq(s, k + 1, Len(s))

\* MidiSequence.channel_message_events(track)
channel_message_events(events, track) ==
    SelectSeq(sorted(events, TRUE),
              LAMBDA event : Truthy(event.channel)
                                 /\ (track = None \/ event.track = track))

\* MidiSequence.meta_events(track)
meta_events(events, track) ==
    SelectSeq(sorted(events, TRUE),
              LAMBDA event : Truthy(event.meta_type)
                                 /\ (track = None \/ event.track = track))

\* MidiSequence.sysex_events(track)
sysex_events(events, track) ==
    SelectSeq(sorted(events, FALSE),
              LAMBDA event : event.type = SYSTEM_EXCLUSIVE
                                 /\ (track = None \/ event.track = track))

\* The stored events of a kind and a track, in the order of a query
EventsOfKind(events, track, by_track, IsKind(_)) ==
    SelectSeq(sorted(events, by_track),
              LAMBDA event : IsKind(event) /\ (track = None \/ event.track = track))

\* C24: for any MidiSequence, channel_message_events(track),
\* meta_events(track) and sysex_events(track) each yield every stored event
\* of their kind (channel voice events on all channels 0-15, meta events of
\* all meta types 0x00-0x7F, all system exclusive events) and no other, of
\* the given track, or of all tracks when track is None.
QueriesYieldTheirKind ==
    handler.kind = "object" =>
        \A track \in {None, 0, 1} :
            /\ channel_message_events(handler.events, track)
                   = EventsOfKind(handler.events, track, TRUE,
                                  LAMBDA e : e.channel # None)
            /\ meta_events(handler.events, track)
                   = EventsOfKind(handler.events, track, TRUE,
                                  LAMBDA e : e.type = META_EVENT /\ e.meta_type # None)
            /\ sysex_events(handler.events, track)
                   = EventsOfKind(handler.events, track, FALSE,
                                  LAMBDA e : e.type = SYSTEM_EXCLUSIVE)

---------------------------------------------------------------------------
(* examples/example_type1to0.py: a parsed MidiSequence is written as a     *)
(* format 0 file.                                                          *)

\* Type0Converter.write(sequence): after the header and the start of the
\* track the loop asks the sequence for events_by_ticks(), which
\* MidiSequence does not have
write(h, sequence) ==
    Raise(start_of_track(header(h, 0, 1, sequence.tick_division, TRUE, 231, 40),
                         0),
          "AttributeError")

\* The sequence of a completed parse is given to a new Type0Converter
Convert ==
    /\ ppc = "done" /\ wpc = "idle" /\ handler.kind = "object"
    /\ handler' = write(NewHandler("writer"), handler)
    /\ wpc' = "converted"
    /\ UNCHANGED <<calls, codecVars, parserVars>>

SpecConvert == ParseInit("object") /\ [][ParseNext \/ Convert]_vars

\* The status bytes and data of the stored channel voice events
ChannelBytes(events) ==
    { <<e.type + e.channel>> \o e.data :
          e \in { events[i] : i \in { j \in 1..Len(events) :
                                        events[j].channel # None } } }

ConvertStep ==
    (wpc = "idle" /\ wpc' = "converted") =>
        /\ handler'.exc = ""
        /\ ChunkIds(handler'._file, 0) = <<FILE_HEADER, TRACK_HEADER>>
        /\ read_bew(SubSeq(handler'._file, 9, 10)) = 0
        /\ EndOfTracks(SubSeq(handler'._file, 23, Len(handler'._file)), 0) = 1
        /\ \A b \in ChannelBytes(handler.events) :
              \E p \in 23..Len(handler'._file) :
                  SubSeq(handler'._file, p, p + Len(b) - 1) = b

\* C25: Type0Converter.write applied to a MidiSequence parsed from a file
\* produces a format 0 file with a single track that holds every channel
\* voice event of the original and exactly one end-of-track event.
ConvertedToType0 == [][ConvertStep]_vars

---------------------------------------------------------------------------
(* read_varlen on byte strings that are not a whole quantity.              *)

\* The most bytes of an input of read_varlen
MaxVarlenBytes == 5

\* Bytes with the high bit set and clear; the longer inputs carry no
\* payload in the bytes with the high bit set
VarlenBytes == {0, 127, 129, 255}

EmptyVarlenBytes == {0, 127, 128}

BytesInit ==
    /\ encoded \in UNION { [1..n -> VarlenBytes] : n \in 0..4 }
                       \cup UNION { [1..n -> EmptyVarlenBytes] :
                                        n \in 0..MaxVarlenBytes }
    /\ value = 0
    /\ decoded = 0
    /\ cpc = "bytes"
    /\ handler = NewHandler("null")
    /\ CallerIdle
    /\ ParserIdle

\* read_varlen(encoded): the loop ends at a byte with the high bit clear or
\* at the end of the data, and the sum is returned; nothing is raised
DoReadBytes ==
    /\ cpc = "bytes"
    /\ decoded' = read_varlen(encoded)
    /\ exc' = ""
    /\ cpc' = "read"
    /\ UNCHANGED <<value, encoded, handler, callerVars, input, instream, pos,
                   strict, format, num_tracks, _current_track, _running_status,
                   _sysex_continuation, track_endposition, ppc, log>>

SpecReadVarlen == BytesInit /\ [][DoReadBytes]_vars

\* No byte with the high bit clear among the first four bytes of data
Unterminated(data) ==
    /\ Len(data) >= 1
    /\ \A i \in 1..Len(data) : i <= 4 => data[i] >= 128

\* C26: reading a variable-length quantity fails with an error when more
\* than four bytes are read without a terminating byte or when the bytes
\* end in the middle of the quantity; no value is returned for such input.
UnterminatedVarlenFails ==
    (cpc = "read" /\ Unterminated(encoded)) => exc # ""

---------------------------------------------------------------------------
(* The big-endian words: write_bew and read_bew on the values around the   *)
(* widths' limits and the values of tests/test_converters.py.  The values  *)
(* are below 2^31.                                                         *)

BewWidths == {1, 2, 4}

BewLimits == {0, 256, 65536, 16777216}

BewTestValues == {127, 1024, 25057, 1642193635, 2147483647}

BewInputs ==
    { v \in { t + d : t \in BewLimits, d \in (0 - MaxOffset - 1)..MaxOffset }
            \cup BewTestValues : v >= 0 }

BewInit ==
    /\ value \in BewInputs
    /\ encoded = <<>>
    /\ decoded = 0
    /\ cpc = "bew"
    /\ handler = NewHandler("null")
    /\ CallerIdle
    /\ ParserIdle

DoWriteBew ==
    /\ cpc = "bew"
    /\ \E w \in { x \in BewWidths : write_bew_ok(value, x) } :
          /\ encoded' = write_bew(value, w)
          /\ calls' = <<Call("write_bew", <<value, w>>)>>
    /\ cpc' = "bew_written"
    /\ UNCHANGED <<value, decoded, handler, wpc, parserVars>>

DoReadBew ==
    /\ cpc = "bew_written"
    /\ read_bew_ok(encoded)
    /\ decoded' = read_bew(encoded)
    /\ cpc' = "bew_read"
    /\ UNCHANGED <<value, encoded, handler, callerVars, parserVars>>

SpecBew == BewInit /\ [][DoWriteBew \/ DoReadBew]_vars

---------------------------------------------------------------------------
(* Claims about the end of a parsed track.                                 *)

\* The end-of-track meta event was the last dispatch, and the while loop of
\* parse_track goes on: the end position of the chunk is not reached
AfterEndOfTrack ==
    /\ ppc = "track"
    /\ log # <<>>
    /\ Last(log).method = "meta_event"
    /\ Last(log).event.meta_type = END_OF_TRACK

EndOfTrackSkipsStep ==
    AfterEndOfTrack =>
        /\ log' = log
        /\ pos' = track_endposition
        /\ ppc' = "chunks"

\* C28: if an end-of-track meta event occurs before the declared end of its
\* MTrk chunk, the rest of the chunk is skipped: no further update_ticks or
\* event callback is dispatched for the track and parsing resumes at the
\* next chunk header.
EndOfTrackSkipsRest == [][EndOfTrackSkipsStep]_vars

---------------------------------------------------------------------------
(* The short-track harness: files of two tracks whose first track chunk    *)
(* ends within its last event, so that the rest of the event would lie in  *)
(* the header of the second chunk.                                         *)

\* The most bytes the first chunk lacks of its last event
MaxShort == 2

ShortInputs ==
    [tracks : { <<t, SecondTrack>> :
                   t \in UNION { [1..k -> Packets] : k \in 1..2 } },
     short : 0..MaxShort]

\* The payload of the first chunk
ShortPayload(f) ==
    SubSeq(Flatten(f.tracks[1]), 1, Len(Flatten(f.tracks[1])) - f.short)

ShortBytes(f) ==
    HeaderChunk(1, 2, TickDivision)
        \o TRACK_HEADER \o write_bew(Len(ShortPayload(f)), 4) \o ShortPayload(f)
        \o TrackChunk(f.tracks[2])

ShortInit ==
    /\ input \in ShortInputs
    /\ instream = ShortBytes(input)
    /\ strict \in BOOLEAN
    /\ pos = 0
    /\ format = None /\ num_tracks = None /\ _current_track = None
    /\ _running_status = None /\ _sysex_continuation = FALSE
    /\ track_endposition = 0
    /\ ppc = "header" /\ exc = "" /\ log = <<>>
    /\ handler = NewHandler("object")
    /\ CallerIdle
    /\ CodecIdle

SpecParseShort == ShortInit /\ [][ParseNext]_vars

TrackBoundaryStep ==
    ppc = "track" =>
        /\ exc' = "" => pos' <= track_endposition
        /\ ppc' = "chunks" => pos' = track_endposition

\* C29: while parsing a track the parser consumes no byte at or beyond the
\* end of the chunk as part of the track's events: an event whose delta
\* time, length or data would go past the end fails, and when the track's
\* loop ends the position is the end of the chunk.
TrackBoundaryKept == [][TrackBoundaryStep]_vars

---------------------------------------------------------------------------
(* The status harness: tracks of channel, meta, system exclusive, escape   *)
(* and system common and real time packets, with data bytes in status      *)
(* position after each of them and at the start of a second track.         *)

\* MTC quarter frame (F1, one data byte) and timing clock (F8, no data)
QuarterFramePacket == <<0, 241, 0>>
TimingClockPacket == <<0, 248>>

StatusPackets ==
    {NoteOnPacket, RunningPacket, TempoPacket, SysexStartPacket, SysexEndPacket,
     EndOfTrackPacket, QuarterFramePacket, TimingClockPacket}

StatusInputs ==
    { <<t>> : t \in UNION { [1..k -> StatusPackets] : k \in 0..MaxEvents } }
        \cup { <<t, <<RunningPacket, EndOfTrackPacket>> >> :
                   t \in UNION { [1..k -> StatusPackets] : k \in 0..MaxEvents } }

StatusInit ==
    /\ input \in StatusInputs
    /\ instream = FileOf(input)
    /\ strict \in BOOLEAN
    /\ pos = 0
    /\ format = None /\ num_tracks = None /\ _current_track = None
    /\ _running_status = None /\ _sysex_continuation = FALSE
    /\ track_endposition = 0
    /\ ppc = "header" /\ exc = "" /\ log = <<>>
    /\ handler = NewHandler("object")
    /\ CallerIdle
    /\ CodecIdle

SpecParseStatus == StatusInit /\ [][ParseNext]_vars

\* The callbacks the step dispatches
Dispatched == SubSeq(log', Len(log) + 1, Len(log'))

\* The byte in status position of the next pass of the track's loop is a
\* data byte
DataByteNext ==
    /\ ppc = "track"
    /\ pos + DeltaSize(pos) < Len(instream)
    /\ instream[pos + DeltaSize(pos) + 1] < 128

ChannelVoiceStatusStep ==
    /\ _running_status' = None \/ _running_status' \in 128..239
    /\ Methods(Dispatched, "start_of_track") # {} => _running_status' = None
    /\ (\E m \in {"meta_event", "sysex_event", "escape_sequence", "invalid_event"} :
            Methods(Dispatched, m) # {}) => _running_status' = None
    /\ (DataByteNext /\ _running_status = None) =>
          /\ \A i \in 1..Len(Dispatched) : Dispatched[i].method \notin EventCallbacks
          /\ strict => exc' = "ParseError"

\* C30: the parser's running status is only ever a channel voice status
\* (0x80-0xEF): it is cleared at the start of every track and by every meta
\* and system status byte, so a data byte in status position directly after
\* a meta, sysex, escape or other system event, or as the first event of a
\* track, is never decoded with a status remembered from before.
RunningStatusIsChannelVoice == [][ChannelVoiceStatusStep]_vars

\* A lenient parse of a note-on, a timing clock and a data byte in status
\* position, in the first of two tracks: the data byte was passed over and
\* not decoded as a second note-on
RunningStatusIsChannelVoiceWitness ==
    /\ ~strict
    /\ input = <<<<NoteOnPacket, TimingClockPacket, RunningPacket>>,
                 <<RunningPacket, EndOfTrackPacket>>>>
    /\ ppc = "track" /\ _current_track = 0 /\ pos = track_endposition - 1
    /\ _running_status = None
    /\ Methods(log, "invalid_event") # {}
    /\ Cardinality(Methods(log, "channel_message_event")) = 1
    /\ Last(log).method = "update_ticks" /\ Last(log).args = <<16>>

---------------------------------------------------------------------------
(* System-exclusive messages split over several packets: tracks of F0 and  *)
(* F7 packets with channel and meta events between them, alone and before  *)
(* a second track that starts with an F7 packet.                           *)

SysexWholePacket == <<0, 240, 2, 126, 247>>
SysexMiddlePacket == <<0, 247, 1, 5>>
SysexLastPacket == <<0, 247, 1, 247>>

SysexPackets ==
    {SysexStartPacket, SysexWholePacket, SysexMiddlePacket, SysexLastPacket,
     SysexEndPacket, NoteOnPacket, TempoPacket, EndOfTrackPacket}

SysexInputs ==
    { <<t>> : t \in UNION { [1..k -> SysexPackets] : k \in 0..MaxEvents } }
        \cup { <<t, <<SysexEndPacket, EndOfTrackPacket>> >> :
                   t \in UNION { [1..k -> SysexPackets] : k \in 0..MaxEvents } }

SysexInit ==
    /\ input \in SysexInputs
    /\ instream = FileOf(input)
    /\ strict \in BOOLEAN
    /\ pos = 0
    /\ format = None /\ num_tracks = None /\ _current_track = None
    /\ _running_status = None /\ _sysex_continuation = FALSE
    /\ track_endposition = 0
    /\ ppc = "header" /\ exc = "" /\ log = <<>>
    /\ handler = NewHandler("object")
    /\ CallerIdle
    /\ CodecIdle

SpecParseSysex == SysexInit /\ [][ParseNext]_vars

\* The position the next pass of the track's loop reads its status byte at
StatusPos ==
    stream_seek(pos + Len(stream_read(pos, 4)),
                sizeof_varlen(read_varlen(stream_read(pos, 4))) - 4)

\* The byte the next pass of the track's loop reads as its status byte
StatusRead == stream_read(StatusPos, 1)

\* The last callback of l that is a start of track or the callback of an
\* F0 packet or of an F7 continuation packet
LastSysexOrStart(l) ==
    { i \in Methods(l, "start_of_track") \cup Methods(l, "sysex_event") :
          \A j \in Methods(l, "start_of_track") \cup Methods(l, "sysex_event") :
              j <= i }

\* The most recent F0 or F7 continuation packet of the track being parsed
\* had data that did not end in 0xF7
SysexOpen(l) ==
    \E i \in LastSysexOrStart(l) :
        /\ l[i].method = "sysex_event"
        /\ Last(l[i].event.data) # END_OF_EXCLUSIVE

SysexContinuationStep ==
    /\ (ppc = "track" /\ StatusRead = <<END_OF_EXCLUSIVE>>) =>
          /\ \A i \in 1..Len(Dispatched) :
                Dispatched[i].method \in EventCallbacks =>
                    Dispatched[i].method = IF SysexOpen(log) THEN "sysex_event"
                                           ELSE "escape_sequence"
          /\ exc' = "" => \E i \in 1..Len(Dispatched) :
                              Dispatched[i].method \in EventCallbacks
    /\ exc' = "" => _sysex_continuation' = SysexOpen(log')
    /\ (\E i \in 1..Len(Dispatched) :
            Dispatched[i].method \in {"channel_message_event", "meta_event"}) =>
          _sysex_continuation' = _sysex_continuation

\* C31: a packet of status 0xF7 is dispatched as sysex_event when the most
\* recent F0 packet or F7 continuation packet of the same track had data
\* that did not end in 0xF7, and as escape_sequence otherwise; the
\* continuation flag is that condition after every step, so it is cleared
\* at the entry of a track and by a packet ending in 0xF7, and a channel
\* or meta event leaves it as it was.
SysexContinuation == [][SysexContinuationStep]_vars

\* A message begun by an F0 packet and continued, after a note-on, by an
\* F7 packet that does not end it: the F7 packet that starts the second
\* track was dispatched as escape_sequence
SysexContinuationWitness ==
    /\ input = <<<<SysexStartPacket, NoteOnPacket, SysexMiddlePacket>>,
                 <<SysexEndPacket, EndOfTrackPacket>>>>
    /\ ppc = "track" /\ _current_track = 1
    /\ ~_sysex_continuation
    /\ Last(log).method = "escape_sequence"
    /\ Cardinality(Methods(log, "sysex_event")) = 2
    /\ Cardinality(Methods(log, "channel_message_event")) = 1

---------------------------------------------------------------------------
(* Channel voice messages of every status: tracks of one packet for each   *)
(* of the seven channel voice statuses, alone and before a second track.   *)

NoteOffPacket == <<0, 128, 64, 0>>
PolyPressurePacket == <<0, 160, 64, 10>>
ControllerPacket == <<0, 177, 7, 100>>
ProgramChangePacket == <<0, 194, 5>>
ChannelPressurePacket == <<0, 211, 50>>

ChannelPackets ==
    {NoteOffPacket, NoteOnPacket, PolyPressurePacket, ControllerPacket,
     ProgramChangePacket, ChannelPressurePacket, PitchBendPacket,
     EndOfTrackPacket}

ChannelInputs ==
    { <<t>> : t \in UNION { [1..k -> ChannelPackets] : k \in 0..MaxEvents } }
        \cup { <<t, SecondTrack>> :
                   t \in UNION { [1..k -> ChannelPackets] : k \in 0..MaxEvents } }

ChannelInit ==
    /\ input \in ChannelInputs
    /\ instream = FileOf(input)
    /\ strict \in BOOLEAN
    /\ pos = 0
    /\ format = None /\ num_tracks = None /\ _current_track = None
    /\ _running_status = None /\ _sysex_continuation = FALSE
    /\ track_endposition = 0
    /\ ppc = "header" /\ exc = "" /\ log = <<>>
    /\ handler = NewHandler("null")
    /\ CallerIdle
    /\ CodecIdle

SpecParseChannel == ChannelInit /\ [][ParseNext]_vars

\* The channel events the step dispatches
ChannelDispatched ==
    { i \in 1..Len(Dispatched) : Dispatched[i].method = "channel_message_event" }

ChannelStatusStep ==
    (ppc = "track" /\ StatusRead # <<>> /\ StatusRead[1] \in 128..239) =>
        /\ Cardinality(ChannelDispatched) = 1
        /\ \A i \in ChannelDispatched :
              /\ Dispatched[i].event.type = BitAnd(StatusRead[1], 240)
              /\ Dispatched[i].event.channel = BitAnd(StatusRead[1], 15)
              /\ Dispatched[i].event.data =
                     stream_read(StatusPos + 1, ChannelDataSize(StatusRead[1]))
        /\ pos' = stream_after(StatusPos + 1, ChannelDataSize(StatusRead[1]))

\* C32: for a channel voice status the parser reads 2 data bytes for note
\* off, note on, polyphonic pressure, controller change and pitch bend and
\* 1 data byte for program change and channel pressure, and dispatches the
\* event with the high nibble as type and the low nibble as channel.
ChannelDataRead == [][ChannelStatusStep]_vars

---------------------------------------------------------------------------
(* The writer's delta time at the start of a track.                        *)

\* The call the step makes, if it makes one
Calling(method) ==
    /\ Len(calls') = Len(calls) + 1
    /\ Last(calls').method = method

StartOfTrackStep ==
    /\ Calling("start_of_track") => handler'.relative_time = 0
    /\ (/\ calls # <<>> /\ Last(calls).method = "start_of_track"
        /\ \E m \in {"note_on", "note_off", "program_change"} : Calling(m)) =>
          /\ handler'._track_buffer # <<>>
          /\ handler'._track_buffer[1] # <<>>
          /\ handler'._track_buffer[1][1] = 0

\* C33: MidiFileWriter.start_of_track resets relative_time to 0, so the
\* first event written in a track has delta 0 unless update_ticks is
\* called after start_of_track, also when ticks were pending at the end of
\* the previous track.
StartOfTrackResetsTicks == [][StartOfTrackStep]_vars

---------------------------------------------------------------------------
(* Tempo changes in the sequence handler: tracks with two tempo events of  *)
(* different values and notes at delta 0 and delta 16.                     *)

SlowTempoPacket == <<16, 255, 81, 3, 15, 66, 64>>

TempoPackets ==
    {TempoPacket, SlowTempoPacket, NoteOnPacket, ZeroVelocityPacket,
     EndOfTrackPacket}

TempoInputs ==
    { <<t>> : t \in UNION { [1..k -> TempoPackets] : k \in 0..MaxEvents } }
        \cup { <<t, SecondTrack>> :
                   t \in UNION { [1..k -> TempoPackets] : k \in 0..MaxEvents } }

TempoInit ==
    /\ input \in TempoInputs
    /\ instream = FileOf(input)
    /\ strict \in BOOLEAN
    /\ pos = 0
    /\ format = None /\ num_tracks = None /\ _current_track = None
    /\ _running_status = None /\ _sysex_continuation = FALSE
    /\ track_endposition = 0
    /\ ppc = "header" /\ exc = "" /\ log = <<>>
    /\ handler = NewHandler("object")
    /\ CallerIdle
    /\ CodecIdle

SpecParseTempo == TempoInit /\ [][ParseNext]_vars

\* The tempo a tempo event's three data bytes stand for
TempoOf(data) == data[1] * 65536 + data[2] * 256 + data[3]

\* The tempo events the step dispatches to a handler that returns
TempoDispatched ==
    { i \in 1..Len(Dispatched) :
          /\ Dispatched[i].method = "meta_event"
          /\ Dispatched[i].event.meta_type = TEMPO
          /\ Dispatched[i].raised = "" }

\* The delta time the step dispatches before its event
StepTicks == IF TicksDispatched THEN log'[Len(log) + 1].args[1] ELSE 0

\* Two times are the same time
SameTime(a, b) ==
    \A t \in DOMAIN a \cup DOMAIN b : TicksAt(a, t) = TicksAt(b, t)

\* The tempo events stored in the sequence
StoredTempos(events) == { i \in 1..Len(events) : events[i].meta_type = TEMPO }

TempoStep ==
    /\ \A i \in TempoDispatched :
          /\ handler'.current_tempo = TempoOf(Dispatched[i].event.data)
          /\ handler'.initial_tempo =
                 IF handler.initial_tempo = None
                 THEN TempoOf(Dispatched[i].event.data)
                 ELSE handler.initial_tempo
          /\ Len(handler'.events) = Len(handler.events) + 1
          /\ Last(handler'.events).meta_type = TEMPO
          /\ SameTime(Last(handler'.events).time,
                      TimePlus(handler.current_time, StepTicks, handler.current_tempo))
    /\ TempoDispatched = {} =>
          /\ handler'.current_tempo = handler.current_tempo
          /\ handler'.initial_tempo = handler.initial_tempo
    /\ TicksDispatched =>
          SameTime(handler'.current_time,
                   TimePlus(handler.current_time, StepTicks, handler.current_tempo))
    /\ \A i \in StoredTempos(handler.events) :
          /\ (\A j \in StoredTempos(handler.events) : j <= i) =>
                 handler.current_tempo = TempoOf(handler.events[i].data)
          /\ (\A j \in StoredTempos(handler.events) : j >= i) =>
                 handler.initial_tempo = TempoOf(handler.events[i].data)

\* C34: in the sequence handler a tempo event's own time is computed with
\* the tempo in force before it, the ticks of every later update_ticks are
\* converted with the tempo of the most recent tempo event, and
\* initial_tempo is the tempo of the first tempo event and is not changed
\* by later ones.
TempoChange == [][TempoStep]_vars

\* Two tempo events with a note between them: the first is stamped with the
\* 16 ticks before it at the default tempo, the ticks after it went by at
\* its tempo, and the second has left initial_tempo at the first one's
TempoChangeWitness ==
    /\ input = <<<<SlowTempoPacket, ZeroVelocityPacket, TempoPacket>>, SecondTrack>>
    /\ ppc = "done"
    /\ Len(handler.events) = 5
    /\ handler.initial_tempo = 1000000
    /\ handler.current_tempo = 250000
    /\ SameTime(handler.events[1].time, TimePlus(ZeroTime, 16, 500000))
    /\ SameTime(handler.events[3].time,
                TimePlus(TimePlus(ZeroTime, 16, 500000), 16, 1000000))
    /\ TicksAt(handler.current_time, 250000) = 16

---------------------------------------------------------------------------
(* The header chunk: files whose first chunk has the id MThd or another    *)
(* one, a metrical or an SMPTE division, and a length of 6 or 7.           *)

RiffId == <<82, 73, 70, 70>>

\* Divisions: 96, 480 and 0x7FFF ticks per quarter note; -24, -25, -29 and
\* -30 frames per second; the top byte 0x80
Divisions == {96, 480, 32767, 59432, 59176, 58192, 57956, 32768}

HeaderInputs ==
    [id : {FILE_HEADER, TRACK_HEADER, RiffId}, format : 0..2,
     num_tracks : 0..2, division : Divisions, extra : 0..1]

HeaderBytes(f) ==
    f.id \o write_bew(6 + f.extra, 4) \o write_bew(f.format, 2)
        \o write_bew(f.num_tracks, 2) \o write_bew(f.division, 2)
        \o [i \in 1..f.extra |-> 0]
        \o TrackChunk(<<NoteOnPacket, EndOfTrackPacket>>)

HeaderInit ==
    /\ input \in HeaderInputs
    /\ instream = HeaderBytes(input)
    /\ strict \in BOOLEAN
    /\ pos = 0
    /\ format = None /\ num_tracks = None /\ _current_track = None
    /\ _running_status = None /\ _sysex_continuation = FALSE
    /\ track_endposition = 0
    /\ ppc = "header" /\ exc = "" /\ log = <<>>
    /\ handler = NewHandler("null")
    /\ CallerIdle
    /\ CodecIdle

SpecParseHeader == HeaderInit /\ [][ParseNext]_vars

\* parse_header is about to read a whole header chunk that strict mode does
\* not reject for its number of tracks
WholeHeader ==
    /\ ppc = "header"
    /\ Len(instream) >= 14
    /\ ~(/\ strict
         /\ read_bew(SubSeq(instream, 9, 10)) = 0
         /\ read_bew(SubSeq(instream, 11, 12)) > 1)

\* The header callback the step dispatches has the format, the number of
\* tracks and the timing of the division, with the given fps for SMPTE
HeaderDispatched(fps) ==
    /\ Len(log') = 1 /\ log'[1].method = "header"
    /\ log'[1].args[1] = read_bew(SubSeq(instream, 9, 10))
    /\ log'[1].args[2] = read_bew(SubSeq(instream, 11, 12))
    /\ IF instream[13] < 128
       THEN /\ log'[1].args[3] = 1
            /\ log'[1].args[4] = BitAnd(read_bew(SubSeq(instream, 13, 14)), 32767)
       ELSE /\ log'[1].args[3] = 0
            /\ log'[1].args[5] = fps
            /\ log'[1].args[6] = instream[14]

HeaderStep(fps) ==
    WholeHeader =>
        IF SubSeq(instream, 1, 4) = FILE_HEADER
        THEN HeaderDispatched(fps)
        ELSE exc' = "ParseError" /\ log' = <<>>

NegativeFpsStep == HeaderStep(instream[13] - 256)

UnsignedFpsStep == HeaderStep(instream[13])

\* C35: for a first chunk with id MThd parse_header dispatches header with
\* format, num_tracks and the timing of the division: metrical with
\* division & 0x7FFF ticks per quarter note when the high bit of the top
\* byte is clear, SMPTE with frame_resolution = the low byte and fps = the
\* top byte as a negative two's-complement number (-24, -25, -29 or -30)
\* when it is set; any other chunk id raises ParseError and dispatches
\* nothing.
HeaderNegativeFps == [][NegativeFpsStep]_vars

\* C35, amended: the same, with fps = the top byte as it is in the file,
\* an unsigned value from 0x80 to 0xFF (0xE8 for -24, 0xE7 for -25, 0xE3
\* for -29, 0xE2 for -30).
HeaderUnsignedFps == [][UnsignedFpsStep]_vars

\* A header of 25 frames per second and 40 subframes was dispatched
HeaderUnsignedFpsWitness ==
    /\ input.id = FILE_HEADER /\ input.division = 59176
    /\ ppc = "chunks"
    /\ log = <<Head(log)>>
    /\ Head(log).method = "header"
    /\ Head(log).args[3] = 0 /\ Head(log).args[5] = 231 /\ Head(log).args[6] = 40

---------------------------------------------------------------------------
(* The progress of the track loop.                                         *)

TrackLoopStep == (ppc = "track" /\ exc' = "") => pos' > pos

\* C36: parse_tracks terminates on every finite byte source, in strict and
\* in lenient mode: every pass of the track loop that does not raise leaves
\* the stream position greater than it found it, also when fewer than 4
\* bytes remain before the end of the source where a delta time is read.
TrackLoopAdvances == [][TrackLoopStep]_vars

---------------------------------------------------------------------------
(* The sequence handler's time across tracks.                              *)

\* The ticks a time stands for, at whatever tempo they went by
RECURSIVE TicksOfTime(_)
TicksOfTime(time) ==
    IF DOMAIN time = {} THEN 0
    ELSE LET t == CHOOSE x \in DOMAIN time : TRUE
         IN  time[t] + TicksOfTime([x \in DOMAIN time \ {t} |-> time[x]])

TrackTimeStep ==
    /\ Methods(Dispatched, "start_of_track") # {} =>
          SameTime(handler'.current_time, ZeroTime)
    /\ Len(handler'.events) > Len(handler.events) =>
          TicksOfTime(Last(handler'.events).time) = handler'.absolute_time

\* C37: the sequence handler's current time restarts at 0 at every start
\* of track, so the time of an event stored in the MidiSequence is the
\* time of the ticks of its own track up to it, and events at the same
\* tick of different tracks carry the same time.
TimeRestartsPerTrack == [][TrackTimeStep]_vars

---------------------------------------------------------------------------
(* The writer's pitch bend, and its decoding by channel_message_event.     *)

\* The track buffer after the step
Buffered == handler'._track_buffer[1]

PitchBendStep ==
    (wpc = "args" /\ Calling("pitch_bend") /\ InRange(Last(calls'))) =>
        /\ Last(calls').raised = ""
        /\ Len(Buffered) >= Len(handler._track_buffer[1]) + 3
        /\ Buffered[Len(Buffered) - 2] = BitOr(PITCH_BEND, Last(calls').args[1])
        /\ Buffered[Len(Buffered) - 1] < 128
        /\ Buffered[Len(Buffered)] < 128
        /\ channel_message_event(
               handler,
               ChannelEvent(PITCH_BEND, Last(calls').args[1],
                            <<Buffered[Len(Buffered) - 1], Buffered[Len(Buffered)]>>))
             = pitch_bend(handler, Last(calls').args[1], Last(calls').args[2])

\* C38: for a value v in 0..16383 and a channel in 0..15,
\* MidiFileWriter.pitch_bend writes the status 0xE0 | channel and two data
\* bytes below 0x80, and channel_message_event, given these two data
\* bytes, calls pitch_bend with the same v.
PitchBendRoundTrip == [][PitchBendStep]_vars

---------------------------------------------------------------------------
(* The handler's relative_time at the event callbacks.                     *)

\* The delta time the next pass of the track's loop reads
DeltaRead == read_varlen(stream_read(pos, 4))

RelativeTimeStep ==
    ppc = "track" =>
        /\ \A i \in 1..Len(Dispatched) :
              Dispatched[i].method \in EventCallbacks =>
                  Dispatched[i].relative_time = DeltaRead
        /\ Len(handler'.events) > Len(handler.events) =>
              Last(handler'.events).relative_time = DeltaRead

\* C39: at every event callback of the parser the handler's relative_time
\* is the event's own delta time, 0 included for an event at the same tick
\* as the one before it, and the relative_time stored on each MidiSequence
\* event is that delta.
RelativeTimeIsDelta == [][RelativeTimeStep]_vars

============================================================================
